---- MODULE Spec2Model ----
(***************************************************************************)
(* Path & Progression Engine of MENTICS (src/app.py, src/dbhelper.py).     *)
(* The SQLite tables are modelled as sequences of rows (row id = index,    *)
(* AUTOINCREMENT and no DELETE on these tables) and every                  *)
(* DatabaseHandler.execute call is one committed statement.                *)
(*                                                                         *)
(* Text is modelled as a sequence of tokens: a description is a sequence   *)
(* whose tokens are either a spelling of the words "boss battle", the      *)
(* colon ":" or other text ("x").  Dates are day numbers.                  *)
(***************************************************************************)
EXTENDS Integers, Sequences, FiniteSets, TLC

\* ------------------------------------------------------------------ bounds
MaxReq == 2          \* requests served in one behaviour of Spec
MaxDoneReq == 4      \* requests served in one behaviour of SpecDone
MaxConcReq == 3      \* requests begun in one behaviour of SpecConc
MaxDay == 3          \* last day the clock reaches
MaxRegenReq == 2     \* regenerations begun in one behaviour of SpecRegen
MaxAchReq == 7       \* requests served in one behaviour of SpecAch
MaxAchDay == 4       \* last day the clock reaches in SpecAch
MaxTenReq == 14      \* requests served in one behaviour of SpecTen
MaxTenAdded == 1     \* tasks the user adds in one behaviour of SpecTen
MaxStatReq == 3      \* requests served in one behaviour of SpecStats
MaxClockReq == 3     \* requests served in one behaviour of SpecClock
MaxNow == 2          \* last second CURRENT_TIMESTAMP reaches in SpecClock
MaxFrameReq == 5     \* requests served in one behaviour of SpecFrame
MaxSideReq == 4      \* requests served in one behaviour of SpecSide
MaxStepReq == 3      \* requests begun in one behaviour of SpecSteps
MaxAbortReq == 4     \* requests begun in one behaviour of SpecAbort

\* ------------------------------------------------------- program constants
MaxPathTasks == 5    \* tasks = tasks[:5]
BossPoints == 100
MilestonePoints == 25
StandardPoints == 10
TestMockHeadCount == 2   \* random.sample(all_mock_tasks, 2)
TestMockTailCount == 3   \* random.sample([...two tasks...], 3)
CollegeMockCount == 5    \* random.sample(all_mock_tasks, 5)
FirstStepTasks == 1      \* all_completed_tasks >= 1
TaskMasterTasks == 10    \* all_completed_tasks >= 10
PathfinderTasks == 25    \* all_completed_tasks >= 25
ShortStreak == 3         \* game_stats['streak'] >= 3
LongStreak == 7          \* game_stats['streak'] >= 7
FirstPoints == 100       \* game_stats['points'] >= 100
SecondPoints == 500      \* game_stats['points'] >= 500

Users == {1, 2}
Procs == {1, 2}              \* request threads of the stepwise specification
TestPrep == "Test Prep"
CollegePlanning == "College Planning"
Categories == {TestPrep, CollegePlanning}
Other == "Other"             \* a category string that is neither of the two
ListingCategories == Categories \cup {Other}

NULL == "NULL"
NoDate == <<>>               \* last_completed_date IS NULL
NoneText == <<"<None>">>     \* a text column / dict value that is None
NoQuiz == [present |-> FALSE, title |-> NULL, questions |-> <<>>]
NoAi == [kind |-> "none", tasks |-> <<>>]
NoQuizResp == [title |-> NULL, questions |-> <<>>]   \* a 404 body: an error text only
NoTotal == [present |-> FALSE, n |-> 0]              \* sat_total = None
EmptyStr == [isstr |-> TRUE, n |-> -1]               \* the string ""
NoneVal == [isstr |-> FALSE, n |-> -1]               \* a JSON null

VARIABLES
    paths,               \* table paths
    quizzes,             \* table quizzes
    quiz_questions,      \* table quiz_questions
    activity_log,        \* table activity_log
    gamification_stats,  \* table gamification_stats, keyed by user_id
    today,               \* date.today()
    now,                 \* CURRENT_TIMESTAMP
    lastReq,             \* the request served last
    resp,                \* its response
    nreq,                \* number of requests served
    nregen,              \* number of regenerations started
    req,                 \* in-flight completion requests (stepwise specification)
    regen,               \* in-flight regenerations (stepwise specification)
    stat_history,        \* table stat_history
    user_stats,          \* users.stats, the JSON blob of every user
    quiz_resp,           \* body of the last answer of GET /api/quiz/<task_id>
    earned,              \* earned_achievements of every user's last dashboard read
    sat_total,           \* sat_total of the last rendering of /dashboard/stats
    prompt,              \* numbered task listing last handed to the collaborator
    subtasks,            \* table subtasks
    quiz_results,        \* table quiz_results
    posted_results       \* "results" of the last body of POST /api/submit_quiz_results

\* the tables only the subtask and quiz result handlers touch
side == <<subtasks, quiz_results, posted_results>>

\* what the path and completion handlers never touch
aux == <<regen, stat_history, user_stats, quiz_resp, earned, sat_total, prompt, side>>

vars == <<paths, quizzes, quiz_questions, activity_log, gamification_stats,
          today, now, lastReq, resp, nreq, nregen, req, aux>>
db == <<paths, quizzes, quiz_questions, activity_log, gamification_stats>>

\* ------------------------------------------------------------ text helpers
BossSpellings == {"Boss Battle", "BOSS BATTLE", "boss battle"}

\* str.lower()
Lower(tok) == IF tok \in BossSpellings THEN "boss battle" ELSE tok

LowerText(d) == [i \in 1..Len(d) |-> Lower(d[i])]

\* "boss battle" in description.lower()
ContainsBossBattle(description) ==
    \E i \in 1..Len(description) : LowerText(description)[i] = "boss battle"

\* description begins with the marker "Boss Battle:" in any letter case
StartsWithMarker(description) ==
    /\ Len(description) >= 2
    /\ Lower(description[1]) = "boss battle"
    /\ description[2] = ":"

\* date.isoformat(): the stored text of a day
IsoFormat(d) == <<d>>

\* date.fromisoformat()
FromIsoFormat(s) == s[1]

\* --------------------------------------------------------------- db helpers
\* db.select("paths", where={"id": task_id, "user_id": user_id}), mutated:
\* the owner is not part of the WHERE clause
SelectTaskAnyOwner(rows, task_id, user_id) ==
    IF task_id \in 1..Len(rows) THEN <<rows[task_id]>> ELSE <<>>

\* db.select("paths", where={"id": task_id, "user_id": user_id})
SelectTask(rows, task_id, user_id) ==
    IF task_id \in 1..Len(rows) /\ rows[task_id].user_id = user_id
    THEN <<rows[task_id]>> ELSE <<>>

\* mutated: the "not already completed" test is dropped
NeedsCompletionAlways(task_info_list) ==
    Len(task_info_list) > 0

\* if task_info_list and not task_info_list[0]['is_completed']
NeedsCompletion(task_info_list) ==
    Len(task_info_list) > 0 /\ ~task_info_list[1].is_completed

\* mutated: the type decides last, so a milestone boss battle earns 25
PointsToAddTypeLast(description, task_type) ==
    IF task_type = "milestone" THEN MilestonePoints
    ELSE IF ContainsBossBattle(description) THEN BossPoints
    ELSE StandardPoints

\* points_to_add = 25 if task_type == 'milestone' else 10
\* if "boss battle" in description.lower(): points_to_add = 100
PointsToAdd(description, task_type) ==
    IF ContainsBossBattle(description) THEN BossPoints
    ELSE IF task_type = "milestone" THEN MilestonePoints
    ELSE StandardPoints

\* mutated: a same-day completion also counts towards the streak
NewStreakSameDayCounts(streak, last_date, day) ==
    IF last_date # NoDate /\ FromIsoFormat(last_date) = day THEN streak + 1
    ELSE IF last_date # NoDate /\ FromIsoFormat(last_date) = day - 1 THEN streak + 1
    ELSE 1

\* mutated: a gap keeps counting instead of resetting
NewStreakNoReset(streak, last_date, day) ==
    IF last_date # NoDate /\ FromIsoFormat(last_date) = day THEN streak
    ELSE streak + 1

\* the streak rule of api_update_task_status
NewStreak(streak, last_date, day) ==
    IF last_date # NoDate /\ FromIsoFormat(last_date) = day THEN streak
    ELSE IF last_date # NoDate /\ FromIsoFormat(last_date) = day - 1 THEN streak + 1
    ELSE 1

\* log_activity(user_id, activity_type, details)
LogRow(user_id, activity_type, category) ==
    [user_id |-> user_id, activity_type |-> activity_type, category |-> category]

\* the row written by db.update("gamification_stats", ...)
CompletedStats(row, points_to_add, day) ==
    [points |-> row.points + points_to_add,
     current_streak |-> NewStreak(row.current_streak, row.last_completed_date, day),
     last_completed_date |-> IsoFormat(day)]

NoRow == [points |-> 0, current_streak |-> 0, last_completed_date |-> NoDate]

\* a request thread that serves nothing
Idle == [pc |-> "idle", user |-> 0, task |-> 0, category |-> NULL,
         points_to_add |-> 0, row |-> NoRow, day |-> 0]

\* what a completion request finds under its task id (history of the request)
\* a request thread that regenerates nothing
IdleRegen == [pc |-> "idle", user |-> 0, category |-> NULL, tasks |-> <<>>,
              i |-> 0, gen |-> 0, saved |-> <<>>]

Target(u, task_id) ==
    IF task_id \notin 1..Len(paths) THEN "missing"
    ELSE IF paths[task_id].user_id # u THEN "foreign"
    ELSE IF paths[task_id].is_completed THEN "done"
    ELSE "open"

Served(r) ==
    /\ nreq' = nreq + 1
    /\ lastReq' = r

\* ------------------------------------------------------------- completion
\* POST /api/update_task_status, the whole handler
ApiUpdateTaskStatus(u, status, task_id) ==
    LET task_info_list == SelectTask(paths, task_id, u) IN
    /\ Served([op |-> "update_task_status", user |-> u, category |-> NULL,
               task |-> task_id, status |-> status, ai |-> "none",
               target |-> Target(u, task_id)])
    /\ IF status = "complete" /\ task_id # 0 /\ NeedsCompletion(task_info_list)
       THEN LET task_info == task_info_list[1]
                points_to_add == PointsToAdd(task_info.description, task_info.type)
            IN
            /\ paths' = [paths EXCEPT ![task_id].is_completed = TRUE]
            /\ activity_log' = Append(activity_log,
                                  LogRow(u, "task_completed", task_info.category))
            /\ IF u \in DOMAIN gamification_stats
               THEN /\ gamification_stats' =
                          [gamification_stats EXCEPT
                              ![u] = CompletedStats(@, points_to_add, today)]
                    /\ resp' = [status |-> 200, success |-> TRUE, tasks |-> <<>>]
               ELSE \* db.select(...)[0] raises IndexError
                    /\ UNCHANGED gamification_stats
                    /\ resp' = [status |-> 500, success |-> FALSE, tasks |-> <<>>]
       ELSE /\ UNCHANGED <<paths, activity_log, gamification_stats>>
            /\ resp' = [status |-> 200, success |-> TRUE, tasks |-> <<>>]
    /\ UNCHANGED <<quizzes, quiz_questions, today, now, nregen, req, aux>>

\* ------------------------------------------------- external collaborator
\* one dict of the collaborator's list; reason, stat_to_update, category and
\* difficulty are stored or dropped without being read again and are left out
Entry(description, type, fmt, quiz) ==
    [isdict |-> TRUE, description |-> description, type |-> type,
     task_format |-> fmt, quiz_content |-> quiz]

Question(text, options, correct) ==
    [question_text |-> text, options |-> options, correct_option |-> correct,
     explanation |-> <<"x">>]

\* the quiz of mock_quiz: two questions of four options
MockQuizContent ==
    [present |-> TRUE, title |-> "SAT Algebra Practice",
     questions |-> << Question(<<"q1">>, <<"2", "3", "4", "5">>, 2),
                      Question(<<"q2">>, <<"a", "b", "c", "d">>, 0) >>]

\* all_mock_tasks of _get_test_prep_ai_tasks.get_mock_tasks_reliably
TestMockHead ==
    << Entry(<<"x">>, "milestone", "link", NoQuiz),
       Entry(<<"x">>, "standard", "quiz", MockQuizContent) >>

\* the second population of get_mock_tasks_reliably (two tasks)
TestMockTail ==
    << Entry(<<"x">>, "standard", "link", NoQuiz),
       Entry(<<"y">>, "standard", "link", NoQuiz) >>

\* all_mock_tasks of _get_college_planning_ai_tasks.get_mock_tasks_reliably
CollegeMock ==
    << Entry(<<"x">>, "standard", NULL, NoQuiz),
       Entry(<<"x">>, "milestone", NULL, NoQuiz),
       Entry(<<"x">>, "milestone", NULL, NoQuiz),
       Entry(<<"x">>, "standard", NULL, NoQuiz),
       Entry(<<"x">>, "standard", NULL, NoQuiz) >>

\* the k-arrangements of the index set S
RECURSIVE Arrangements(_, _)
Arrangements(S, k) ==
    IF k = 0 THEN {<<>>}
    ELSE UNION {{<<x>> \o t : t \in Arrangements(S \ {x}, k - 1)} : x \in S}

\* random.sample(population, k): the lists it can return; none when
\* k > len(population), where it raises ValueError
RandomSample(population, k) ==
    {[i \in 1..k |-> population[s[i]]] : s \in Arrangements(1..Len(population), k)}

\* get_mock_tasks_reliably() of the Test Prep pipeline
TestMockTasks ==
    {h \o t : h \in RandomSample(TestMockHead, TestMockHeadCount),
              t \in RandomSample(TestMockTail, TestMockTailCount)}

\* get_mock_tasks_reliably() of the College Planning pipeline
CollegeMockTasks == RandomSample(CollegeMock, CollegeMockCount)

\* what a call of a mock generator does: return one of its lists, or raise
MockOutcomes(lists) ==
    IF lists = {} THEN {[raised |-> TRUE, tasks |-> <<>>]}
    ELSE {[raised |-> FALSE, tasks |-> l] : l \in lists}

\* _get_test_prep_ai_tasks / _get_college_planning_ai_tasks: without an API
\* key the mock; a non-empty list is returned as it is; everything else
\* (transport error, invalid JSON, no list, empty list) ends in the mock
GetAiTasks(ai, mockLists) ==
    IF ai.kind = "tasks" /\ Len(ai.tasks) > 0
    THEN {[raised |-> FALSE, tasks |-> ai.tasks]}
    ELSE MockOutcomes(mockLists)

\* an entry the save loop cannot store
IsBadEntry(e) == ~e.isdict \/ e.description = NoneText

\* what the collaborator did, as the claims class it: "failed" (no API key,
\* transport error, no list, empty list), "malformed" (a list with an entry
\* of the wrong shape) or "wellformed"
AiClass(ai) ==
    IF ai.kind = "none" THEN "none"
    ELSE IF ai.kind # "tasks" \/ Len(ai.tasks) = 0 THEN "failed"
    ELSE IF \E i \in 1..Len(ai.tasks) : IsBadEntry(ai.tasks[i]) THEN "malformed"
    ELSE "wellformed"

\* tasks[:5]
Take(s, n) == IF Len(s) <= n THEN s ELSE SubSeq(s, 1, n)

\* ------------------------------------------------------------- generation
DeactivateIncomplete(rows, u, c) ==
    [i \in 1..Len(rows) |->
        IF rows[i].user_id = u /\ rows[i].category = c /\ rows[i].is_active
           /\ ~rows[i].is_completed
        THEN [rows[i] EXCEPT !.is_active = FALSE] ELSE rows[i]]

DeactivateEveryCategory(rows, u, c) ==
    [i \in 1..Len(rows) |->
        IF rows[i].user_id = u /\ rows[i].is_active
        THEN [rows[i] EXCEPT !.is_active = FALSE] ELSE rows[i]]

\* db.update("paths", {"is_active": False},
\*           where={"user_id": u, "category": c, "is_active": True})
Deactivate(rows, u, c) ==
    [i \in 1..Len(rows) |->
        IF rows[i].user_id = u /\ rows[i].category = c /\ rows[i].is_active
        THEN [rows[i] EXCEPT !.is_active = FALSE] ELSE rows[i]]

\* the row of db.insert("paths", {...}) for a generated task
TaskRow(u, order, entry, category, fmt, ts, gen) ==
    [user_id |-> u, task_order |-> order, description |-> entry.description,
     type |-> entry.type,
     category |-> category, is_active |-> TRUE, is_completed |-> FALSE,
     task_format |-> fmt, task_content_id |-> 0, created_at |-> ts,
     due_date |-> NoDate, is_user_added |-> FALSE, gen |-> gen]

\* the questions inserted before the first one the table rejects
\* (question_text NOT NULL)
RECURSIVE GoodQuestions(_)
GoodQuestions(qs) ==
    IF qs = <<>> \/ Head(qs).question_text = NoneText THEN <<>>
    ELSE <<Head(qs)>> \o GoodQuestions(Tail(qs))

\* json.dumps / json.loads of an option list
JsonDumps(options) == [json |-> options]
JsonLoads(text) == text.json

QuestionRow(quiz_id, q) ==
    [quiz_id |-> quiz_id, question_text |-> q.question_text,
     options |-> JsonDumps(q.options), correct_option |-> q.correct_option,
     explanation |-> q.explanation]

\* one iteration of the loop of _generate_and_save_new_test_path
SaveTestTask(st, u, task, i, ts, gen) ==
    IF ~task.isdict \/ task.description = NoneText
    THEN \* task.get on a non-dict, or description NOT NULL violated
         [st EXCEPT !.raised = TRUE]
    ELSE LET task_id == Len(st.paths) + 1 IN
         IF task.task_format = "quiz" /\ task.quiz_content.present
         THEN LET quiz_id == Len(st.quizzes) + 1
                  good == GoodQuestions(task.quiz_content.questions)
                  row == [TaskRow(u, i, task, TestPrep, "quiz", ts, gen)
                             EXCEPT !.task_content_id = quiz_id]
              IN [paths |-> Append(st.paths, row),
                  quizzes |-> Append(st.quizzes,
                                 [task_id |-> task_id,
                                  title |-> task.quiz_content.title,
                                  \* history: the questions as handed over
                                  given |-> task.quiz_content.questions]),
                  quiz_questions |-> st.quiz_questions \o
                                 [k \in 1..Len(good) |-> QuestionRow(quiz_id, good[k])],
                  saved |-> IF Len(good) = Len(task.quiz_content.questions)
                            THEN Append(st.saved, task_id) ELSE st.saved,
                  raised |-> Len(good) < Len(task.quiz_content.questions)]
         ELSE [st EXCEPT !.paths = Append(@, TaskRow(u, i, task, TestPrep, "link", ts, gen)),
                         !.saved = Append(@, task_id)]

\* one iteration of the loop of _generate_and_save_new_college_path
SaveCollegeTask(st, u, task_data, i, ts, gen) ==
    IF ~task_data.isdict \/ task_data.description = NoneText
    THEN [st EXCEPT !.raised = TRUE]
    ELSE [st EXCEPT !.paths = Append(@, TaskRow(u, i, task_data, CollegePlanning,
                                               "link", ts, gen)),
                    !.saved = Append(@, Len(st.paths) + 1)]

\* CURRENT_TIMESTAMP of the i-th insert when the second changes after the
\* tickAt-th insert of the request
StampAt(i, tickAt) == IF i > tickAt THEN now + 1 ELSE now

\* for i, task in enumerate(tasks): ... ; stops at the first exception
RECURSIVE SaveTasks(_, _, _, _, _, _, _)
SaveTasks(st, u, c, tasks, i, tickAt, gen) ==
    IF i > Len(tasks) \/ st.raised THEN st
    ELSE SaveTasks(IF c = CollegePlanning
                   THEN SaveCollegeTask(st, u, tasks[i], i, StampAt(i, tickAt), gen)
                   ELSE SaveTestTask(st, u, tasks[i], i, StampAt(i, tickAt), gen),
                   u, c, tasks, i + 1, tickAt, gen)

\* _generate_and_save_new_test_path and _generate_and_save_new_college_path
\* for one outcome `out` of the collaborator call: the tables they leave
\* and what they return.  The college pipeline catches every exception and
\* returns []; the test pipeline lets it escape.
GenerateAndSave(u, c, out, tickAt) ==
    LET deactivated == Deactivate(paths, u, c)
        start == [paths |-> deactivated, quizzes |-> quizzes,
                  quiz_questions |-> quiz_questions, saved |-> <<>>,
                  raised |-> out.raised]
        st == SaveTasks(start, u, c, Take(out.tasks, MaxPathTasks), 1, tickAt,
                        nregen + 1)
    IN [paths |-> st.paths, quizzes |-> st.quizzes,
        quiz_questions |-> st.quiz_questions,
        activity_log |-> IF st.raised THEN activity_log
                         ELSE Append(activity_log, LogRow(u, "path_generated", c)),
        escaped |-> st.raised /\ c # CollegePlanning,
        returned |-> IF st.raised THEN <<>> ELSE st.saved]

\* the pipeline a category string is routed to
PipelineOf(category) ==
    IF category = CollegePlanning THEN CollegePlanning ELSE TestPrep

MockOf(c) == IF c = CollegePlanning THEN CollegeMockTasks ELSE TestMockTasks

\* the state change shared by every entry point that regenerates
Regenerate(u, c, ai, tickAt, g) ==
    /\ nregen' = nregen + 1
    /\ tickAt \in 0..MaxPathTasks
    /\ paths' = g.paths
    /\ quizzes' = g.quizzes
    /\ quiz_questions' = g.quiz_questions
    /\ activity_log' = g.activity_log
    /\ now' = IF Len(g.paths) > Len(paths) /\ g.paths[Len(g.paths)].created_at > now
              THEN now + 1 ELSE now
    /\ UNCHANGED <<gamification_stats, today, req, aux>>

\* POST /dashboard/test-path-builder and /dashboard/college-path-builder
PathBuilder(u, c, ai, tickAt) ==
    \E out \in GetAiTasks(ai, MockOf(c)) :
      LET g == GenerateAndSave(u, c, out, tickAt) IN
      /\ Served([op |-> "path_builder", user |-> u, category |-> c, task |-> 0,
                 status |-> NULL, ai |-> AiClass(ai), target |-> "none"])
      /\ Regenerate(u, c, ai, tickAt, g)
      /\ resp' = [status |-> IF g.escaped THEN 500 ELSE 302,
                  success |-> ~g.escaped, tasks |-> g.returned]

\* POST /api/chat with a message that asks for a new path
ApiChat(u, category, ai, tickAt) ==
    LET c == PipelineOf(category) IN
    \E out \in GetAiTasks(ai, MockOf(c)) :
      LET g == GenerateAndSave(u, c, out, tickAt) IN
      /\ Served([op |-> "chat", user |-> u, category |-> category, task |-> 0,
                 status |-> NULL, ai |-> AiClass(ai), target |-> "none"])
      /\ Regenerate(u, c, ai, tickAt, g)
      /\ resp' = [status |-> IF g.escaped THEN 500 ELSE 200,
                  success |-> ~g.escaped, tasks |-> g.returned]

\* ----------------------------------------------------------- task listing
ActiveIds(rows, u, c) ==
    {i \in 1..Len(rows) :
        rows[i].user_id = u /\ rows[i].category = c /\ rows[i].is_active}

\* mutated: every active row, whatever its created_at
ActivePathAnyStamp(rows, u, c) == ActiveIds(rows, u, c)

\* SELECT created_at ... WHERE is_active ORDER BY created_at DESC LIMIT 1,
\* then the active rows of that created_at
ActivePath(rows, u, c) ==
    {i \in ActiveIds(rows, u, c) :
        \A j \in ActiveIds(rows, u, c) : rows[j].created_at <= rows[i].created_at}

\* sorted(active_path, key=lambda x: x['task_order']) over rows read in id order
RECURSIVE SortByOrder(_, _)
SortByOrder(rows, ids) ==
    IF ids = {} THEN <<>>
    ELSE LET first == CHOOSE i \in ids :
                 \A j \in ids : \/ rows[i].task_order < rows[j].task_order
                                \/ rows[i].task_order = rows[j].task_order /\ i <= j
         IN <<first>> \o SortByOrder(rows, ids \ {first})

\* GET or POST /api/tasks?category=...
ApiTasks(u, method, category, ai, tickAt) ==
    LET active_path == ActivePath(paths, u, category)
        c == PipelineOf(category)
    IN
    /\ Served([op |-> "tasks", user |-> u, category |-> category, task |-> 0,
               status |-> method, ai |-> AiClass(ai), target |-> "none"])
    /\ IF method = "POST" \/ active_path = {}
       THEN \E out \in GetAiTasks(ai, MockOf(c)) :
              LET g == GenerateAndSave(u, c, out, tickAt) IN
              /\ ai # NoAi
              /\ Regenerate(u, c, ai, tickAt, g)
              \* the handler catches the exception and answers 500
              /\ resp' = [status |-> IF g.escaped THEN 500 ELSE 200,
                          success |-> ~g.escaped, tasks |-> g.returned]
       ELSE /\ ai = NoAi
            /\ tickAt = MaxPathTasks
            /\ resp' = [status |-> 200, success |-> TRUE,
                        tasks |-> SortByOrder(paths, active_path)]
            /\ UNCHANGED <<paths, quizzes, quiz_questions, activity_log,
                           gamification_stats, today, now, nregen, req, aux>>

\* ------------------------------------------------------------------- chat
\* _get_current_numbered_tasks(user_id, category): "Task k: ... - status" for
\* the k-th task of the active path; no line when there is no active task
NumberedTasks(rows, u, c) ==
    LET active_tasks == SortByOrder(rows, ActivePath(rows, u, c)) IN
    [k \in 1..Len(active_tasks) |->
        [number |-> k, task |-> active_tasks[k],
         completed |-> rows[active_tasks[k]].is_completed]]

\* POST /api/chat with an ordinary message: with an API key the reply is
\* asked of the collaborator with the numbered listing in the prompt
ChatReply(u, category, haskey) ==
    /\ Served([op |-> "chat_reply", user |-> u, category |-> category, task |-> 0,
               status |-> IF haskey THEN "key" ELSE "nokey", ai |-> "none",
               target |-> "none"])
    /\ prompt' = IF haskey THEN NumberedTasks(paths, u, PipelineOf(category))
                 ELSE prompt
    /\ resp' = [status |-> 200, success |-> TRUE, tasks |-> <<>>]
    /\ UNCHANGED <<paths, quizzes, quiz_questions, activity_log,
                   gamification_stats, today, now, nregen, req, regen,
                   stat_history, user_stats, quiz_resp, earned, sat_total, side>>

\* -------------------------------------------------------------- quiz fetch
\* the elements of a set of row ids in id order
RECURSIVE InIdOrder(_)
InIdOrder(ids) ==
    IF ids = {} THEN <<>>
    ELSE LET first == CHOOSE i \in ids : \A j \in ids : i <= j
         IN <<first>> \o InIdOrder(ids \ {first})

\* mutated: the quiz id is not part of the WHERE clause
QuizQuestionIdsAnyQuiz(rows, quiz_id) == 1..Len(rows)

\* db.select("quiz_questions", where={"quiz_id": quiz_id})
QuizQuestionIds(rows, quiz_id) ==
    {k \in 1..Len(rows) : rows[k].quiz_id = quiz_id}

\* one element of "questions" in the answer of get_quiz
QuestionJson(rows, k) ==
    [id |-> k, question_text |-> rows[k].question_text,
     options |-> JsonLoads(rows[k].options),
     correct_option |-> rows[k].correct_option,
     explanation |-> rows[k].explanation]

\* GET /api/quiz/<task_id>
GetQuiz(u, task_id) ==
    LET task_info == SelectTask(paths, task_id, u)
        is_quiz == task_info # <<>> /\ task_info[1].task_format = "quiz"
        quiz_id == IF is_quiz THEN task_info[1].task_content_id ELSE 0
        quiz_details == IF quiz_id \in 1..Len(quizzes)
                        THEN <<quizzes[quiz_id]>> ELSE <<>>
        ids == InIdOrder(QuizQuestionIds(quiz_questions, quiz_id))
    IN
    /\ Served([op |-> "quiz", user |-> u, category |-> NULL, task |-> task_id,
               status |-> NULL, ai |-> "none", target |-> Target(u, task_id)])
    /\ IF ~is_quiz \/ quiz_details = <<>>
       THEN /\ resp' = [status |-> 404, success |-> FALSE, tasks |-> <<>>]
            /\ quiz_resp' = NoQuizResp
       ELSE /\ resp' = [status |-> 200, success |-> TRUE, tasks |-> <<>>]
            /\ quiz_resp' =
                  [title |-> quiz_details[1].title,
                   questions |-> [k \in 1..Len(ids) |->
                                     QuestionJson(quiz_questions, ids[k])]]
    /\ UNCHANGED <<paths, quizzes, quiz_questions, activity_log,
                   gamification_stats, today, now, nregen, req, regen,
                   stat_history, user_stats, earned, sat_total, prompt, side>>

\* -------------------------------------------------------------- user tasks
\* SELECT MAX(task_order) ... WHERE is_active, "or 0"
MaxOrder(rows, u, c) ==
    IF ActiveIds(rows, u, c) = {} THEN 0
    ELSE LET m == CHOOSE i \in ActiveIds(rows, u, c) :
                 \A j \in ActiveIds(rows, u, c) : rows[j].task_order <= rows[i].task_order
         IN rows[m].task_order

\* POST /api/add_task
AddTask(u, description, category, due_date) ==
    /\ Served([op |-> "add_task", user |-> u, category |-> category, task |-> 0,
               status |-> NULL, ai |-> "none", target |-> "none"])
    /\ IF description = <<>>
       THEN /\ resp' = [status |-> 400, success |-> FALSE, tasks |-> <<>>]
            /\ UNCHANGED <<paths, activity_log>>
       ELSE /\ paths' = Append(paths,
                   [user_id |-> u, task_order |-> MaxOrder(paths, u, category) + 1,
                    description |-> description, type |-> "standard",
                    category |-> category,
                    is_active |-> TRUE, is_completed |-> FALSE,
                    task_format |-> "link", task_content_id |-> 0,
                    created_at |-> now, due_date |-> due_date,
                    is_user_added |-> TRUE, gen |-> 0])
            /\ activity_log' = Append(activity_log, LogRow(u, "task_added", category))
            /\ resp' = [status |-> 200, success |-> TRUE, tasks |-> <<Len(paths) + 1>>]
    /\ UNCHANGED <<quizzes, quiz_questions, gamification_stats, today, now,
                   nregen, req, aux>>

\* --------------------------------------------------- subtasks and due dates
\* POST /api/add_subtask; parent_task_id 0 and description <<>> stand for a
\* missing or empty value
AddSubtask(u, parent_task_id, description) ==
    /\ Served([op |-> "add_subtask", user |-> u, category |-> NULL,
               task |-> parent_task_id, status |-> NULL, ai |-> "none",
               target |-> Target(u, parent_task_id)])
    /\ IF parent_task_id = 0 \/ description = <<>>
       THEN /\ resp' = [status |-> 400, success |-> FALSE, tasks |-> <<>>]
            /\ UNCHANGED subtasks
       ELSE /\ subtasks' = Append(subtasks,
                              [parent_task_id |-> parent_task_id,
                               description |-> description,
                               is_completed |-> FALSE])
            /\ resp' = [status |-> 200, success |-> TRUE, tasks |-> <<>>]
    /\ UNCHANGED <<db, today, now, nregen, req, regen, stat_history, user_stats,
                   quiz_resp, earned, sat_total, prompt, quiz_results,
                   posted_results>>

\* db.update("paths", {"due_date": due_date}, where={"id": task_id}): the
\* row with that id, whoever owns it; no row when the id is absent
SetDueDate(rows, task_id, due_date) ==
    [i \in 1..Len(rows) |->
        IF i = task_id THEN [rows[i] EXCEPT !.due_date = due_date] ELSE rows[i]]

\* POST /api/update_task_deadline
UpdateTaskDeadline(u, task_id, due_date) ==
    /\ Served([op |-> "update_task_deadline", user |-> u, category |-> NULL,
               task |-> task_id, status |-> NULL, ai |-> "none",
               target |-> Target(u, task_id)])
    /\ paths' = SetDueDate(paths, task_id, due_date)
    /\ resp' = [status |-> 200, success |-> TRUE, tasks |-> <<>>]
    /\ UNCHANGED <<quizzes, quiz_questions, activity_log, gamification_stats,
                   today, now, nregen, req, aux>>

\* the owner of the task a subtask hangs under (0: no such subtask or task)
SubtaskOwner(subtask_id) ==
    IF subtask_id \notin 1..Len(subtasks) THEN 0
    ELSE IF subtasks[subtask_id].parent_task_id \notin 1..Len(paths) THEN 0
    ELSE paths[subtasks[subtask_id].parent_task_id].user_id

\* db.update("subtasks", {"is_completed": is_completed}, where={"id": subtask_id})
SetIsCompleted(rows, subtask_id, is_completed) ==
    [i \in 1..Len(rows) |->
        IF i = subtask_id THEN [rows[i] EXCEPT !.is_completed = is_completed]
        ELSE rows[i]]

\* POST /api/update_subtask
UpdateSubtask(u, subtask_id, is_completed) ==
    /\ Served([op |-> "update_subtask", user |-> u, category |-> NULL,
               task |-> subtask_id, status |-> NULL, ai |-> "none",
               target |-> IF subtask_id \notin 1..Len(subtasks) THEN "missing"
                          ELSE IF SubtaskOwner(subtask_id) = 0 THEN "orphan"
                          ELSE IF SubtaskOwner(subtask_id) = u THEN "own"
                          ELSE "foreign"])
    /\ subtasks' = SetIsCompleted(subtasks, subtask_id, is_completed)
    /\ resp' = [status |-> 200, success |-> TRUE, tasks |-> <<>>]
    /\ UNCHANGED <<db, today, now, nregen, req, regen, stat_history, user_stats,
                   quiz_resp, earned, sat_total, prompt, quiz_results,
                   posted_results>>

\* ------------------------------------------------------------ quiz results
\* one element of the posted "results" list: a dict and the keys it has
ResultEntry(has_question_id, has_is_correct, question_id, is_correct) ==
    [has_question_id |-> has_question_id, has_is_correct |-> has_is_correct,
     question_id |-> question_id, is_correct |-> is_correct]

HasEitherKey(result) == result.has_question_id \/ result.has_is_correct

\* if 'question_id' in result and 'is_correct' in result
HasBothKeys(result) == result.has_question_id /\ result.has_is_correct

\* for result in results: db.insert('quiz_results', {...}) for the entries
\* that have both keys
RECURSIVE InsertResults(_, _, _)
InsertResults(rows, user_id, results) ==
    IF results = <<>> THEN rows
    ELSE InsertResults(IF HasBothKeys(Head(results))
                       THEN Append(rows, [user_id |-> user_id,
                                          question_id |-> Head(results).question_id,
                                          is_correct |-> Head(results).is_correct])
                       ELSE rows,
                       user_id, Tail(results))

\* POST /api/submit_quiz_results; results is [islist, entries]
SubmitQuizResults(u, results) ==
    /\ Served([op |-> "submit_quiz_results", user |-> u, category |-> NULL,
               task |-> 0, status |-> NULL, ai |-> "none", target |-> "none"])
    /\ posted_results' = results
    /\ IF ~results.islist \/ results.entries = <<>>
       THEN /\ resp' = [status |-> 400, success |-> FALSE, tasks |-> <<>>]
            /\ UNCHANGED quiz_results
       ELSE /\ quiz_results' = InsertResults(quiz_results, u, results.entries)
            /\ resp' = [status |-> 200, success |-> TRUE, tasks |-> <<>>]
    /\ UNCHANGED <<db, today, now, nregen, req, regen, stat_history, user_stats,
                   quiz_resp, earned, sat_total, prompt, subtasks>>

\* ------------------------------------------------------------------ clock
NextDayUpTo(last) ==
    /\ today < last
    /\ today' = today + 1
    /\ UNCHANGED <<paths, quizzes, quiz_questions, activity_log,
                   gamification_stats, now, lastReq, resp, nreq, nregen, req, aux>>

NextDay == NextDayUpTo(MaxDay)

\* a second passes on the clock of CURRENT_TIMESTAMP
Tick ==
    /\ now < MaxNow
    /\ now' = now + 1
    /\ UNCHANGED <<paths, quizzes, quiz_questions, activity_log,
                   gamification_stats, today, lastReq, resp, nreq, nregen, req, aux>>

\* ---------------------------------------------------------------- dashboard
\* sum(1 for t in all_tasks if t['is_completed'] and t['category'] == c)
TotalCompleted(rows, u, c) ==
    Cardinality({i \in 1..Len(rows) :
                    rows[i].user_id = u /\ rows[i].is_completed /\ rows[i].category = c})

\* any(t['category'] == c for t in all_tasks)
HasCategory(rows, u, c) ==
    \E i \in 1..Len(rows) : rows[i].user_id = u /\ rows[i].category = c

\* the ids of earned_achievements
EarnedAchievements(rows, u, game_stats) ==
    LET all_completed_tasks == TotalCompleted(rows, u, TestPrep)
                               + TotalCompleted(rows, u, CollegePlanning)
    IN {a \in {"pioneer_test"} : HasCategory(rows, u, TestPrep)}
       \cup {a \in {"planner_college"} : HasCategory(rows, u, CollegePlanning)}
       \cup {a \in {"first_step"} : all_completed_tasks >= FirstStepTasks}
       \cup {a \in {"task_master_10"} : all_completed_tasks >= TaskMasterTasks}
       \cup {a \in {"pathfinder_pro_25"} : all_completed_tasks >= PathfinderTasks}
       \cup {a \in {"streak_3"} : game_stats.current_streak >= ShortStreak}
       \cup {a \in {"streak_7"} : game_stats.current_streak >= LongStreak}
       \cup {a \in {"points_100"} : game_stats.points >= FirstPoints}
       \cup {a \in {"points_500"} : game_stats.points >= SecondPoints}

\* GET /dashboard: the earned achievements it renders; a missing
\* gamification_stats row is inserted first
Dashboard(u) ==
    LET have == u \in DOMAIN gamification_stats
        game_stats == IF have THEN gamification_stats[u] ELSE NoRow
    IN
    /\ Served([op |-> "dashboard", user |-> u, category |-> NULL, task |-> 0,
               status |-> NULL, ai |-> "none", target |-> "none"])
    /\ gamification_stats' =
          IF have THEN gamification_stats
          ELSE [v \in DOMAIN gamification_stats \cup {u} |->
                   IF v = u THEN NoRow ELSE gamification_stats[v]]
    /\ earned' = [earned EXCEPT ![u] = EarnedAchievements(paths, u, game_stats)]
    /\ resp' = [status |-> 200, success |-> TRUE, tasks |-> <<>>]
    /\ UNCHANGED <<paths, quizzes, quiz_questions, activity_log, today, now,
                   nregen, req, regen, stat_history, user_stats, quiz_resp,
                   sat_total, prompt, side>>

\* ------------------------------------------------------------------ inputs
BadEntry == [isdict |-> FALSE, description |-> NoneText, type |-> NULL,
             task_format |-> NULL, quiz_content |-> NoQuiz]
TStd == Entry(<<"x">>, "standard", "link", NoQuiz)
TMile == Entry(<<"x">>, "milestone", "link", NoQuiz)
TBoss == Entry(<<"Boss Battle", ":", "x">>, "milestone", "link", NoQuiz)
TBossStd == Entry(<<"BOSS BATTLE", ":", "x">>, "standard", "link", NoQuiz)
TMid == Entry(<<"x", "boss battle">>, "standard", "link", NoQuiz)
TQuiz == Entry(<<"x">>, "standard", "quiz", MockQuizContent)
TQuizB == Entry(<<"x">>, "standard", "quiz",
                [present |-> TRUE, title |-> "Quiz",
                 questions |-> << Question(<<"q3">>, <<"t", "f">>, 1) >>])

\* responses of the collaborator: no API key, a transport error or timeout,
\* a "tasks" value that is no list, and lists (empty, malformed, well-formed,
\* longer than five)
AiLists ==
    { <<>>,
      <<BadEntry>>,
      <<TStd, BadEntry>>,
      <<TBoss, TQuiz, TQuizB>>,
      <<TStd, TMile, TStd, TStd, TStd, TBossStd>> }

AiOutcomes ==
    {[kind |-> k, tasks |-> <<>>] : k \in {"nokey", "error"}}
    \cup {[kind |-> "tasks", tasks |-> l] : l \in AiLists}

UserDescriptions == { <<>>, <<"x">>, <<"x", "Boss Battle">> }

\* ------------------------------------------------------------ specification
\* signup: one users row and one gamification_stats row per user
Init ==
    /\ paths = <<>>
    /\ quizzes = <<>>
    /\ quiz_questions = <<>>
    /\ activity_log = <<>>
    /\ gamification_stats =
          [u \in Users |-> [points |-> 0, current_streak |-> 0,
                            last_completed_date |-> NoDate]]
    /\ today = 0
    /\ now = 0
    /\ lastReq = [op |-> "none", user |-> 0, category |-> NULL, task |-> 0,
                  status |-> NULL, ai |-> "none", target |-> "none"]
    /\ resp = [status |-> 0, success |-> FALSE, tasks |-> <<>>]
    /\ nreq = 0
    /\ nregen = 0
    /\ req = [p \in Procs |-> Idle]
    /\ regen = [p \in Procs |-> IdleRegen]
    /\ stat_history = <<>>
    /\ user_stats = [u \in Users |-> [sat_ebrw |-> EmptyStr, sat_math |-> EmptyStr]]
    /\ quiz_resp = NoQuizResp
    /\ earned = [u \in Users |-> {}]
    /\ sat_total = NoTotal
    /\ prompt = <<>>
    /\ subtasks = <<>>
    /\ quiz_results = <<>>
    /\ posted_results = [islist |-> FALSE, entries |-> <<>>]

NoTick == MaxPathTasks

\* the user whose paths are regenerated; the other one owns foreign tasks
Regenerators == {1}

Next ==
    \/ \E u \in Regenerators, c \in Categories, ai \in AiOutcomes :
          nreq < MaxReq /\ PathBuilder(u, c, ai, NoTick)
    \/ \E u \in Regenerators, c \in Categories, ai \in AiOutcomes :
          nreq < MaxReq /\ ApiChat(u, c, ai, NoTick)
    \/ \E u \in Regenerators, method \in {"GET", "POST"}, c \in ListingCategories,
          ai \in AiOutcomes \cup {NoAi} :
          nreq < MaxReq /\ ApiTasks(u, method, c, ai, NoTick)
    \/ \E u \in Users, d \in UserDescriptions, c \in Categories :
          nreq < MaxReq /\ AddTask(u, d, c, NoDate)
    \/ \E u \in Users, task_id \in 0..(Len(paths) + 1) :
          nreq < MaxReq /\ GetQuiz(u, task_id)

Spec == Init /\ [][Next]_vars

\* ---------------------------------------------- completion specification
\* one well-formed list with every kind of task the points rule tells apart
DoneList == <<TBoss, TBossStd, TMid, TMile, TStd>>

NextDone ==
    \/ nreq < MaxDoneReq
       /\ ApiTasks(1, "GET", TestPrep, [kind |-> "tasks", tasks |-> DoneList], NoTick)
    \/ \E u \in Users :
          nreq < MaxDoneReq /\ AddTask(u, <<"x", "Boss Battle">>, TestPrep, NoDate)
    \/ \E u \in Users, status \in {"complete", "incomplete"},
          task_id \in 0..(Len(paths) + 1) :
          nreq < MaxDoneReq /\ ApiUpdateTaskStatus(u, status, task_id)
    \/ NextDay

SpecDone == Init /\ [][NextDone]_vars

\* ------------------------------------------------ stepwise specification
\* POST /api/update_task_status one database statement at a time: every
\* db.select / db.update / db.insert opens its own connection and commits,
\* so the statements of two requests interleave freely.

\* db.select("paths", where={"id": task_id, "user_id": user_id}) and the test
ConcSelectTask(p, u, task_id) ==
    LET task_info_list == SelectTask(paths, task_id, u) IN
    /\ req[p].pc = "idle"
    /\ Served([op |-> "update_task_status", user |-> u, category |-> NULL,
               task |-> task_id, status |-> "complete", ai |-> "none",
               target |-> Target(u, task_id)])
    /\ IF task_id # 0 /\ NeedsCompletion(task_info_list)
       THEN /\ req' = [req EXCEPT ![p] =
                   [pc |-> "update_task", user |-> u, task |-> task_id,
                    category |-> task_info_list[1].category,
                    points_to_add |-> PointsToAdd(task_info_list[1].description,
                                                  task_info_list[1].type),
                    row |-> NoRow, day |-> 0]]
            /\ UNCHANGED resp
       ELSE /\ resp' = [status |-> 200, success |-> TRUE, tasks |-> <<>>]
            /\ UNCHANGED req
    /\ UNCHANGED <<paths, quizzes, quiz_questions, activity_log,
                   gamification_stats, today, now, nregen, aux>>

\* db.update("paths", {"is_completed": True}, where={"id": ..., "user_id": ...})
ConcUpdateTask(p) ==
    /\ req[p].pc = "update_task"
    /\ paths' = [paths EXCEPT ![req[p].task].is_completed = TRUE]
    /\ req' = [req EXCEPT ![p].pc = "log"]
    /\ UNCHANGED <<quizzes, quiz_questions, activity_log, gamification_stats,
                   today, now, lastReq, resp, nreq, nregen, aux>>

\* log_activity(user_id, 'task_completed', ...)
ConcLog(p) ==
    /\ req[p].pc = "log"
    /\ activity_log' = Append(activity_log,
                          LogRow(req[p].user, "task_completed", req[p].category))
    /\ req' = [req EXCEPT ![p].pc = "select_stats"]
    /\ UNCHANGED <<paths, quizzes, quiz_questions, gamification_stats,
                   today, now, lastReq, resp, nreq, nregen, aux>>

\* game_stats_row = db.select("gamification_stats", ...)[0]; today = date.today()
ConcSelectStats(p) ==
    /\ req[p].pc = "select_stats"
    /\ IF req[p].user \in DOMAIN gamification_stats
       THEN /\ req' = [req EXCEPT ![p].pc = "update_stats",
                                  ![p].row = gamification_stats[req[p].user],
                                  ![p].day = today]
            /\ UNCHANGED resp
       ELSE /\ req' = [req EXCEPT ![p] = Idle]
            /\ resp' = [status |-> 500, success |-> FALSE, tasks |-> <<>>]
    /\ UNCHANGED <<paths, quizzes, quiz_questions, activity_log,
                   gamification_stats, today, now, lastReq, nreq, nregen, aux>>

\* db.update("gamification_stats", {...}, where={"user_id": user_id})
ConcUpdateStats(p) ==
    /\ req[p].pc = "update_stats"
    /\ gamification_stats' =
          [gamification_stats EXCEPT
              ![req[p].user] = CompletedStats(req[p].row, req[p].points_to_add,
                                              req[p].day)]
    /\ req' = [req EXCEPT ![p] = Idle]
    /\ resp' = [status |-> 200, success |-> TRUE, tasks |-> <<>>]
    /\ UNCHANGED <<paths, quizzes, quiz_questions, activity_log,
                   today, now, lastReq, nreq, nregen, aux>>

NextConc ==
    \/ nreq < MaxConcReq
       /\ ApiTasks(1, "GET", TestPrep, [kind |-> "tasks", tasks |-> DoneList], NoTick)
    \/ \E p \in Procs, u \in Users, task_id \in 1..Len(paths) :
          nreq < MaxConcReq /\ ConcSelectTask(p, u, task_id)
    \/ \E p \in Procs : ConcUpdateTask(p)
    \/ \E p \in Procs : ConcLog(p)
    \/ \E p \in Procs : ConcSelectStats(p)
    \/ \E p \in Procs : ConcUpdateStats(p)

SpecConc == Init /\ [][NextConc]_vars

\* ------------------------------------------------------------------ stats
\* a stat value is a JSON number or a string holding the decimal text of n
IntVal(n) == [isstr |-> FALSE, n |-> n]
StrVal(n) == [isstr |-> TRUE, n |-> n]

\* the truth value of a stat value: "" and 0 and None are false
Truthy(v) == IF v.isstr THEN v # EmptyStr ELSE (v # NoneVal /\ v.n # 0)

\* int(v) returns a number (it raises for "" and None)
Parses(v) == v # EmptyStr /\ v # NoneVal

\* int(v)
IntOf(v) == v.n

\* the value as the TEXT column stat_history.stat_value stores it
TextOf(v) == StrVal(v.n)

SectionStats == {"sat_ebrw", "sat_math"}

\* stats.get(key)
StatGet(stats, key) == IF key = "sat_ebrw" THEN stats.sat_ebrw ELSE stats.sat_math

\* stats[key] = value
StatSet(stats, key, value) ==
    IF key = "sat_ebrw" THEN [stats EXCEPT !.sat_ebrw = value]
    ELSE [stats EXCEPT !.sat_math = value]

\* POST /api/update_stats
ApiUpdateStats(u, stat_name, stat_value) ==
    /\ Served([op |-> "update_stats", user |-> u, category |-> NULL, task |-> 0,
               status |-> stat_name, ai |-> "none", target |-> "none"])
    /\ IF stat_value = NoneVal
       THEN /\ resp' = [status |-> 400, success |-> FALSE, tasks |-> <<>>]
            /\ UNCHANGED <<stat_history, user_stats, activity_log>>
       ELSE /\ stat_history' = Append(stat_history,
                                   [user_id |-> u, stat_name |-> stat_name,
                                    stat_value |-> TextOf(stat_value)])
            /\ IF stat_name \notin {"sat_total", "act_composite"}
               THEN /\ user_stats' = [user_stats EXCEPT
                                         ![u] = StatSet(@, stat_name, stat_value)]
                    /\ activity_log' = Append(activity_log,
                                             LogRow(u, "stat_updated", NULL))
               ELSE UNCHANGED <<user_stats, activity_log>>
            /\ resp' = [status |-> 200, success |-> TRUE, tasks |-> <<>>]
    /\ UNCHANGED <<paths, quizzes, quiz_questions, gamification_stats, today,
                   now, nregen, req, regen, quiz_resp, earned, sat_total, prompt, side>>

\* if stats.get(key) != value and value
FormChanges(stats, key, value) == StatGet(stats, key) # value /\ Truthy(value)

\* POST /dashboard/stats/edit with the two SAT fields of the form
EditStats(u, sat_ebrw, sat_math) ==
    LET stats == user_stats[u]
        first == IF FormChanges(stats, "sat_ebrw", sat_ebrw)
                 THEN StatSet(stats, "sat_ebrw", sat_ebrw) ELSE stats
        second == IF FormChanges(stats, "sat_math", sat_math)
                  THEN StatSet(first, "sat_math", sat_math) ELSE first
        logged == IF FormChanges(stats, "sat_ebrw", sat_ebrw)
                  THEN Append(activity_log, LogRow(u, "stat_updated", NULL))
                  ELSE activity_log
    IN
    /\ Served([op |-> "edit_stats", user |-> u, category |-> NULL, task |-> 0,
               status |-> NULL, ai |-> "none", target |-> "none"])
    /\ user_stats' = [user_stats EXCEPT ![u] = second]
    /\ activity_log' = IF FormChanges(stats, "sat_math", sat_math)
                       THEN Append(logged, LogRow(u, "stat_updated", NULL))
                       ELSE logged
    /\ resp' = [status |-> 302, success |-> TRUE, tasks |-> <<>>]
    /\ UNCHANGED <<paths, quizzes, quiz_questions, gamification_stats, today,
                   now, nregen, req, regen, stat_history, quiz_resp, earned,
                   sat_total, prompt, side>>

\* sat_total of GET /dashboard/stats
SatTotal(stats) ==
    IF Truthy(stats.sat_ebrw) /\ Truthy(stats.sat_math)
    THEN IF Parses(stats.sat_ebrw) /\ Parses(stats.sat_math)
         THEN [present |-> TRUE, n |-> IntOf(stats.sat_ebrw) + IntOf(stats.sat_math)]
         ELSE NoTotal
    ELSE NoTotal

\* GET /dashboard/stats
StatsView(u) ==
    /\ Served([op |-> "stats", user |-> u, category |-> NULL, task |-> 0,
               status |-> NULL, ai |-> "none", target |-> "none"])
    /\ sat_total' = SatTotal(user_stats[u])
    /\ resp' = [status |-> 200, success |-> TRUE, tasks |-> <<>>]
    /\ UNCHANGED <<paths, quizzes, quiz_questions, activity_log,
                   gamification_stats, today, now, nregen, req, regen,
                   stat_history, user_stats, quiz_resp, earned, prompt, side>>

\* the values a client sends: JSON numbers or null, form fields
ApiValues == {NoneVal, IntVal(0), IntVal(650), IntVal(700)}
FormValues == {EmptyStr, StrVal(650), StrVal(700)}

NextStats ==
    \/ \E stat_name \in SectionStats \cup {"sat_total"}, v \in ApiValues :
          nreq < MaxStatReq /\ ApiUpdateStats(1, stat_name, v)
    \/ \E e \in FormValues, m \in FormValues :
          nreq < MaxStatReq /\ EditStats(1, e, m)
    \/ \E u \in Users : nreq < MaxStatReq /\ StatsView(u)

SpecStats == Init /\ [][NextStats]_vars

\* -------------------------------------------------- clock specification
\* one user whose requests are spread over several seconds; a second may
\* also pass between two inserts of one regeneration
ClockList == <<TStd, TMile, TStd>>

NextClock ==
    \/ \E method \in {"GET", "POST"}, tickAt \in 0..MaxPathTasks,
          ai \in {[kind |-> "tasks", tasks |-> ClockList], NoAi} :
          /\ nreq < MaxClockReq
          /\ tickAt = NoTick \/ now < MaxNow
          /\ ApiTasks(1, method, TestPrep, ai, tickAt)
    \/ nreq < MaxClockReq /\ AddTask(1, <<"x">>, TestPrep, NoDate)
    \/ \E haskey \in BOOLEAN :
          nreq < MaxClockReq /\ ChatReply(1, TestPrep, haskey)
    \/ Tick

SpecClock == Init /\ [][NextClock]_vars

\* ------------------------------------------- achievement specification
\* one user who completes tasks on several days and reads the dashboard
NextAch ==
    \/ nreq < MaxAchReq
       /\ ApiTasks(1, "GET", TestPrep, [kind |-> "tasks", tasks |-> DoneList], NoTick)
    \/ \E task_id \in 1..Len(paths) :
          nreq < MaxAchReq /\ ApiUpdateTaskStatus(1, "complete", task_id)
    \/ nreq < MaxAchReq /\ Dashboard(1)
    \/ NextDayUpTo(MaxAchDay)

SpecAch == Init /\ [][NextAch]_vars

\* -------------------------------------------- ten-tasks specification
\* one user who opens both paths, adds tasks of a category of their own and
\* completes tasks until the count-based achievements are in reach; the
\* counts do not depend on which task is completed, so the requests complete
\* the user's open tasks in id order
UserAdded(rows, u) ==
    {i \in 1..Len(rows) : rows[i].user_id = u /\ rows[i].is_user_added}

FirstOpen(rows, u) ==
    {i \in 1..Len(rows) :
        /\ rows[i].user_id = u /\ ~rows[i].is_completed
        /\ \A j \in 1..(i - 1) : rows[j].user_id = u => rows[j].is_completed}

NextTen ==
    \/ \E c \in Categories :
          /\ nreq < MaxTenReq
          /\ ActiveIds(paths, 1, c) = {}
          /\ ApiTasks(1, "GET", c, [kind |-> "tasks", tasks |-> DoneList], NoTick)
    \/ /\ nreq < MaxTenReq
       /\ Cardinality(UserAdded(paths, 1)) < MaxTenAdded
       /\ AddTask(1, <<"x">>, Other, NoDate)
    \/ \E task_id \in FirstOpen(paths, 1) :
          nreq < MaxTenReq /\ ApiUpdateTaskStatus(1, "complete", task_id)
    \/ nreq < MaxTenReq /\ Dashboard(1)

SpecTen == Init /\ [][NextTen]_vars

\* ---------------------------------------------------- frame specification
\* every handler that writes a table, served one after another: user 1
\* regenerates and uses every handler, user 2 adds and completes tasks
FrameList == <<TStd>>

\* a body of POST /api/submit_quiz_results: one entry with both keys
FrameResults ==
    [islist |-> TRUE, entries |-> << ResultEntry(TRUE, TRUE, 1, TRUE) >>]

NextFrame ==
    \/ \E c \in Categories :
          /\ nreq < MaxFrameReq
          /\ PathBuilder(1, c, [kind |-> "tasks", tasks |-> FrameList], NoTick)
    \/ \E u \in Users, c \in Categories :
          nreq < MaxFrameReq /\ AddTask(u, <<"x">>, c, NoDate)
    \/ \E u \in Users, task_id \in 1..Len(paths) :
          nreq < MaxFrameReq /\ ApiUpdateTaskStatus(u, "complete", task_id)
    \/ \E task_id \in 1..Len(paths) :
          nreq < MaxFrameReq /\ UpdateTaskDeadline(1, task_id, IsoFormat(1))
    \/ \E parent_task_id \in 1..Len(paths) :
          nreq < MaxFrameReq /\ AddSubtask(1, parent_task_id, <<"s">>)
    \/ \E subtask_id \in 1..Len(subtasks) :
          nreq < MaxFrameReq /\ UpdateSubtask(1, subtask_id, TRUE)
    \/ nreq < MaxFrameReq /\ SubmitQuizResults(1, FrameResults)
    \/ nreq < MaxFrameReq /\ ApiUpdateStats(1, "sat_math", IntVal(650))
    \/ nreq < MaxFrameReq /\ Dashboard(1)

SpecFrame == Init /\ [][NextFrame]_vars

\* ------------------------------------------------ side-table specification
\* two users who add tasks and subtasks, move due dates, toggle subtasks,
\* submit quiz results, update a stat and complete tasks, with ids of their
\* own rows, of the other user's rows and of no row
SideDescriptions == {<<>>, <<"s">>}
SideDates == {NoDate, IsoFormat(1)}

\* bodies of POST /api/submit_quiz_results: no list, an empty list, and lists
\* of entries with and without both keys (no question has id 7)
SideResults ==
    { [islist |-> FALSE, entries |-> <<>>],
      [islist |-> TRUE, entries |-> <<>>],
      [islist |-> TRUE, entries |-> << ResultEntry(TRUE, TRUE, 7, TRUE) >>],
      [islist |-> TRUE, entries |-> << ResultEntry(TRUE, FALSE, 1, FALSE),
                                        ResultEntry(TRUE, TRUE, 1, FALSE),
                                        ResultEntry(FALSE, FALSE, 0, FALSE) >>] }

NextSide ==
    \/ \E u \in Users :
          nreq < MaxSideReq /\ AddTask(u, <<"x">>, TestPrep, NoDate)
    \/ \E u \in Users, task_id \in 0..(Len(paths) + 1), due_date \in SideDates :
          nreq < MaxSideReq /\ UpdateTaskDeadline(u, task_id, due_date)
    \/ \E u \in Users, parent_task_id \in 0..(Len(paths) + 1),
          description \in SideDescriptions :
          nreq < MaxSideReq /\ AddSubtask(u, parent_task_id, description)
    \/ \E u \in Users, subtask_id \in 0..(Len(subtasks) + 1),
          is_completed \in BOOLEAN :
          nreq < MaxSideReq /\ UpdateSubtask(u, subtask_id, is_completed)
    \/ \E u \in Users, results \in SideResults :
          nreq < MaxSideReq /\ SubmitQuizResults(u, results)
    \/ \E v \in {NoneVal, IntVal(650)} :
          nreq < MaxSideReq /\ ApiUpdateStats(1, "sat_math", v)
    \/ \E task_id \in 1..Len(paths) :
          nreq < MaxSideReq /\ ApiUpdateTaskStatus(1, "complete", task_id)

SpecSide == Init /\ [][NextSide]_vars

\* --------------------------------------------- stepwise regeneration
\* _generate_and_save_new_test_path / _generate_and_save_new_college_path one
\* committed statement at a time.  The reads of the history and the call of
\* the collaborator touch no table and are taken together with the
\* deactivation; the statements that store one task (and its quiz) touch
\* only rows of that task and are taken as one step.

\* the end of a regeneration whose pipeline raised: the Test Prep pipeline
\* lets the exception escape, the College Planning one returns []
RegenRaised(p, c) ==
    /\ regen' = [regen EXCEPT ![p] = IdleRegen]
    /\ resp' = IF c = CollegePlanning
               THEN [status |-> 302, success |-> TRUE, tasks |-> <<>>]
               ELSE [status |-> 500, success |-> FALSE, tasks |-> <<>>]

\* db.update("paths", {"is_active": False}, ...) and the collaborator call
RegenBegin(p, u, c, ai) ==
    \E out \in GetAiTasks(ai, MockOf(c)) :
      /\ regen[p].pc = "idle"
      /\ Served([op |-> "path_builder", user |-> u, category |-> c, task |-> 0,
                 status |-> NULL, ai |-> AiClass(ai), target |-> "none"])
      /\ nregen' = nregen + 1
      /\ paths' = Deactivate(paths, u, c)
      /\ IF out.raised
         THEN RegenRaised(p, c)
         ELSE /\ regen' = [regen EXCEPT ![p] =
                     [pc |-> "insert", user |-> u, category |-> c,
                      tasks |-> Take(out.tasks, MaxPathTasks), i |-> 1,
                      gen |-> nregen + 1, saved |-> <<>>]]
              /\ UNCHANGED resp
      /\ UNCHANGED <<quizzes, quiz_questions, activity_log, gamification_stats,
                     today, now, req, stat_history, user_stats, quiz_resp,
                     earned, sat_total, prompt, side>>

\* one iteration of the save loop
RegenInsert(p) ==
    LET r == regen[p]
        st0 == [paths |-> paths, quizzes |-> quizzes,
                quiz_questions |-> quiz_questions, saved |-> r.saved,
                raised |-> FALSE]
        st == IF r.category = CollegePlanning
              THEN SaveCollegeTask(st0, r.user, r.tasks[r.i], r.i, now, r.gen)
              ELSE SaveTestTask(st0, r.user, r.tasks[r.i], r.i, now, r.gen)
    IN
    /\ r.pc = "insert"
    /\ paths' = st.paths
    /\ quizzes' = st.quizzes
    /\ quiz_questions' = st.quiz_questions
    /\ IF st.raised
       THEN RegenRaised(p, r.category)
       ELSE /\ regen' = [regen EXCEPT ![p].saved = st.saved,
                                      ![p].i = r.i + 1,
                                      ![p].pc = IF r.i = Len(r.tasks)
                                                THEN "log" ELSE "insert"]
            /\ UNCHANGED resp
    /\ UNCHANGED <<activity_log, gamification_stats, today, now, lastReq, nreq,
                   nregen, req, stat_history, user_stats, quiz_resp, earned,
                   sat_total, prompt, side>>

\* log_activity(user_id, 'path_generated', ...); return saved_tasks
RegenLog(p) ==
    /\ regen[p].pc = "log"
    /\ activity_log' = Append(activity_log,
                          LogRow(regen[p].user, "path_generated", regen[p].category))
    /\ resp' = [status |-> 302, success |-> TRUE, tasks |-> regen[p].saved]
    /\ regen' = [regen EXCEPT ![p] = IdleRegen]
    /\ UNCHANGED <<paths, quizzes, quiz_questions, gamification_stats, today,
                   now, lastReq, nreq, nregen, req, stat_history, user_stats,
                   quiz_resp, earned, sat_total, prompt, side>>

\* a short well-formed answer of the collaborator
RegenList == <<TStd, TMile>>

\* the answers of the collaborator here: well-formed, or malformed in its
\* second entry
RegenOutcomes ==
    {[kind |-> "tasks", tasks |-> l] : l \in {RegenList, <<TStd, BadEntry>>}}

NextRegen ==
    \/ \E p \in Procs, u \in Regenerators, c \in Categories, ai \in RegenOutcomes :
          nreq < MaxRegenReq /\ RegenBegin(p, u, c, ai)
    \/ \E p \in Procs : RegenInsert(p)
    \/ \E p \in Procs : RegenLog(p)

SpecRegen == Init /\ [][NextRegen]_vars

\* ------------------------------------------- regeneration by statements
\* _generate_and_save_new_test_path / _generate_and_save_new_college_path with
\* every committed statement a step of its own (DatabaseHandler.execute opens
\* a connection, runs one statement and commits), so that every state between
\* two statements is one another request can read.  A request may also stop
\* between two statements (the worker is killed, the connection times out).

\* path_history: the completed and the incomplete tasks of the category
PathHistory(rows, u, c) ==
    [completed |-> {i \in 1..Len(rows) : rows[i].user_id = u /\ rows[i].category = c
                                          /\ rows[i].is_completed},
     incomplete |-> {i \in 1..Len(rows) : rows[i].user_id = u /\ rows[i].category = c
                                           /\ ~rows[i].is_completed}]

\* mutated: the exception handler writes the path_generated row
StepRaisedLogs(p, c) ==
    /\ regen' = [regen EXCEPT ![p] = IdleRegen]
    /\ activity_log' = Append(activity_log, LogRow(regen[p].user, "path_generated", c))
    /\ resp' = IF c = CollegePlanning
               THEN [status |-> 302, success |-> TRUE, tasks |-> <<>>]
               ELSE [status |-> 500, success |-> FALSE, tasks |-> <<>>]

\* the end of a regeneration whose pipeline raised: the Test Prep pipeline
\* lets the exception escape, the College Planning one returns []; neither
\* reaches log_activity
StepRaised(p, c) ==
    /\ regen' = [regen EXCEPT ![p] = IdleRegen]
    /\ UNCHANGED activity_log
    /\ resp' = IF c = CollegePlanning
               THEN [status |-> 302, success |-> TRUE, tasks |-> <<>>]
               ELSE [status |-> 500, success |-> FALSE, tasks |-> <<>>]

\* the request arrives; db.select("paths", where={user_id, category}) builds
\* path_history
StepHistory(p, u, c, ai) ==
    /\ regen[p].pc = "idle"
    /\ Served([op |-> "path_builder", user |-> u, category |-> c, task |-> 0,
               status |-> NULL, ai |-> AiClass(ai), target |-> "none"])
    /\ nregen' = nregen + 1
    /\ regen' = [regen EXCEPT ![p] =
           [pc |-> "deactivate", user |-> u, category |-> c, ai |-> ai,
            history |-> PathHistory(paths, u, c), tasks |-> <<>>, i |-> 0,
            gen |-> nregen + 1, saved |-> <<>>, task_id |-> 0, quiz_id |-> 0,
            q |-> 0]]
    /\ UNCHANGED <<db, resp, today, now, req, stat_history, user_stats,
                   quiz_resp, earned, sat_total, prompt, side>>

\* db.update("paths", {"is_active": False}, where={user_id, category, is_active})
StepDeactivate(p) ==
    /\ regen[p].pc = "deactivate"
    /\ paths' = Deactivate(paths, regen[p].user, regen[p].category)
    /\ regen' = [regen EXCEPT ![p].pc = "collaborate"]
    /\ UNCHANGED <<quizzes, quiz_questions, activity_log, gamification_stats,
                   resp, today, now, lastReq, nreq, nregen, req, stat_history,
                   user_stats, quiz_resp, earned, sat_total, prompt, side>>

\* tasks = _get_..._ai_tasks(...); tasks = tasks[:5]
StepCollaborate(p) ==
    LET r == regen[p] IN
    /\ r.pc = "collaborate"
    /\ \E out \in GetAiTasks(r.ai, MockOf(r.category)) :
          IF out.raised
          THEN StepRaised(p, r.category)
          ELSE /\ regen' = [regen EXCEPT ![p].pc = "insert",
                                         ![p].tasks = Take(out.tasks, MaxPathTasks),
                                         ![p].i = 1]
               /\ UNCHANGED <<resp, activity_log>>
    /\ UNCHANGED <<paths, quizzes, quiz_questions, gamification_stats, today,
                   now, lastReq, nreq, nregen, req, stat_history, user_stats,
                   quiz_resp, earned, sat_total, prompt, side>>

\* the loop moves on to the next task, or leaves the loop after the last one
NextTask(r, task_id) ==
    [r EXCEPT !.saved = Append(@, task_id), !.i = @ + 1,
              !.pc = IF r.i = Len(r.tasks) THEN "log" ELSE "insert"]

\* task_format == 'quiz' and task.get('quiz_content'), in the Test Prep loop
HasQuiz(c, task) ==
    c # CollegePlanning /\ task.task_format = "quiz" /\ task.quiz_content.present

\* task_id = db.insert("paths", {...}) of one iteration
StepInsertTask(p) ==
    LET r == regen[p]
        task == r.tasks[r.i]
        task_id == Len(paths) + 1
    IN
    /\ r.pc = "insert"
    /\ IF IsBadEntry(task)
       THEN /\ StepRaised(p, r.category)
            /\ UNCHANGED paths
       ELSE /\ paths' = Append(paths,
                           TaskRow(r.user, r.i, task, r.category,
                                   IF HasQuiz(r.category, task) THEN "quiz" ELSE "link",
                                   now, r.gen))
            /\ regen' = [regen EXCEPT ![p] =
                            IF HasQuiz(r.category, task)
                            THEN [r EXCEPT !.pc = "quiz", !.task_id = task_id]
                            ELSE NextTask(r, task_id)]
            /\ UNCHANGED <<resp, activity_log>>
    /\ UNCHANGED <<quizzes, quiz_questions, gamification_stats, today, now,
                   lastReq, nreq, nregen, req, stat_history, user_stats,
                   quiz_resp, earned, sat_total, prompt, side>>

\* quiz_id = db.insert("quizzes", {"task_id": task_id, "title": ...})
StepInsertQuiz(p) ==
    LET r == regen[p]
        quiz_content == r.tasks[r.i].quiz_content
    IN
    /\ r.pc = "quiz"
    /\ quizzes' = Append(quizzes, [task_id |-> r.task_id,
                                   title |-> quiz_content.title,
                                   given |-> quiz_content.questions])
    /\ regen' = [regen EXCEPT ![p].pc = "link", ![p].quiz_id = Len(quizzes) + 1]
    /\ UNCHANGED <<paths, quiz_questions, activity_log, gamification_stats,
                   resp, today, now, lastReq, nreq, nregen, req, stat_history,
                   user_stats, quiz_resp, earned, sat_total, prompt, side>>

\* db.update("paths", {"task_content_id": quiz_id}, where={"id": task_id})
StepLinkQuiz(p) ==
    LET r == regen[p] IN
    /\ r.pc = "link"
    /\ paths' = [paths EXCEPT ![r.task_id].task_content_id = r.quiz_id]
    /\ regen' = [regen EXCEPT ![p] =
                    IF r.tasks[r.i].quiz_content.questions = <<>>
                    THEN NextTask(r, r.task_id)
                    ELSE [r EXCEPT !.pc = "question", !.q = 1]]
    /\ UNCHANGED <<quizzes, quiz_questions, activity_log, gamification_stats,
                   resp, today, now, lastReq, nreq, nregen, req, stat_history,
                   user_stats, quiz_resp, earned, sat_total, prompt, side>>

\* db.insert("quiz_questions", {...}) for one q of quiz_content["questions"]
StepInsertQuestion(p) ==
    LET r == regen[p]
        questions == r.tasks[r.i].quiz_content.questions
    IN
    /\ r.pc = "question"
    /\ IF questions[r.q].question_text = NoneText
       THEN /\ StepRaised(p, r.category)
            /\ UNCHANGED quiz_questions
       ELSE /\ quiz_questions' = Append(quiz_questions,
                                        QuestionRow(r.quiz_id, questions[r.q]))
            /\ regen' = [regen EXCEPT ![p] =
                            IF r.q = Len(questions)
                            THEN NextTask(r, r.task_id)
                            ELSE [r EXCEPT !.q = @ + 1]]
            /\ UNCHANGED <<resp, activity_log>>
    /\ UNCHANGED <<paths, quizzes, gamification_stats, today, now, lastReq,
                   nreq, nregen, req, stat_history, user_stats, quiz_resp,
                   earned, sat_total, prompt, side>>

\* log_activity(user_id, 'path_generated', ...); return saved_tasks
StepLog(p) ==
    /\ regen[p].pc = "log"
    /\ activity_log' = Append(activity_log,
                          LogRow(regen[p].user, "path_generated", regen[p].category))
    /\ resp' = [status |-> 302, success |-> TRUE, tasks |-> regen[p].saved]
    /\ regen' = [regen EXCEPT ![p] = IdleRegen]
    /\ UNCHANGED <<paths, quizzes, quiz_questions, gamification_stats, today,
                   now, lastReq, nreq, nregen, req, stat_history, user_stats,
                   quiz_resp, earned, sat_total, prompt, side>>

\* the request stops between two statements: what is committed stays
StepStop(p) ==
    /\ regen[p].pc # "idle"
    /\ regen' = [regen EXCEPT ![p] = IdleRegen]
    /\ UNCHANGED <<db, resp, today, now, lastReq, nreq, nregen, req,
                   stat_history, user_stats, quiz_resp, earned, sat_total,
                   prompt, side>>

\* the requests of user 1: a list with a quiz, a list whose second entry is
\* malformed, no API key (Test Prep), a plain list (College Planning)
StepList == <<TQuiz, TStd>>

StepInputs ==
    { <<TestPrep, [kind |-> "tasks", tasks |-> StepList]>>,
      <<TestPrep, [kind |-> "tasks", tasks |-> <<TStd, BadEntry>>]>>,
      <<TestPrep, [kind |-> "nokey", tasks |-> <<>>]>>,
      <<CollegePlanning, [kind |-> "tasks", tasks |-> RegenList]>> }

NextSteps ==
    \/ \E in \in StepInputs :
          nreq < MaxStepReq /\ StepHistory(1, 1, in[1], in[2])
    \/ StepDeactivate(1)
    \/ StepCollaborate(1)
    \/ StepInsertTask(1)
    \/ StepInsertQuiz(1)
    \/ StepLinkQuiz(1)
    \/ StepInsertQuestion(1)
    \/ StepLog(1)
    \/ StepStop(1)
    \/ \E task_id \in 1..Len(paths) :
          nreq < MaxStepReq /\ ApiUpdateTaskStatus(1, "complete", task_id)
    \/ \E task_id \in 1..Len(paths) :
          nreq < MaxStepReq /\ GetQuiz(1, task_id)

SpecSteps == Init /\ [][NextSteps]_vars

\* ------------------------------------------------- interrupted completion
\* the statements of POST /api/update_task_status, one request at a time; a
\* request may end between two statements (the worker is killed, a statement
\* fails), and what it has committed stays
ConcAbort(p) ==
    /\ req[p].pc # "idle"
    /\ req' = [req EXCEPT ![p] = Idle]
    /\ resp' = [status |-> 500, success |-> FALSE, tasks |-> <<>>]
    /\ UNCHANGED <<db, today, now, lastReq, nreq, nregen, aux>>

NextAbort ==
    \/ nreq < MaxAbortReq
       /\ ApiTasks(1, "GET", TestPrep, [kind |-> "tasks", tasks |-> DoneList], NoTick)
    \/ \E task_id \in 1..Len(paths) :
          nreq < MaxAbortReq /\ ConcSelectTask(1, 1, task_id)
    \/ ConcUpdateTask(1)
    \/ ConcLog(1)
    \/ ConcSelectStats(1)
    \/ ConcUpdateStats(1)
    \/ ConcAbort(1)

SpecAbort == Init /\ [][NextAbort]_vars

\* ------------------------------------------------------------------ claims
Points(u) == gamification_stats[u].points
Streak(u) == gamification_stats[u].current_streak
LastDate(u) == gamification_stats[u].last_completed_date

\* the request served last ran a regeneration
Regenerated == lastReq.ai # "none"

\* the collaborator was unreachable or answered with an empty or malformed list
CollaboratorFailed == lastReq.ai \in {"failed", "malformed"}

ActiveOfLast == ActiveIds(paths, lastReq.user, PipelineOf(lastReq.category))

\* the step serves a completion request ("complete") of user u for task t
CompletionStep(u, t) ==
    /\ nreq' = nreq + 1
    /\ lastReq'.op = "update_task_status"
    /\ lastReq'.status = "complete"
    /\ lastReq'.user = u
    /\ lastReq'.task = t

\* the step takes task t of user u from incomplete to complete
TransitionStep(u, t) ==
    /\ CompletionStep(u, t)
    /\ t \in 1..Len(paths)
    /\ paths[t].user_id = u
    /\ ~paths[t].is_completed

\* C1: when the collaborator is unreachable or returns an empty or malformed
\* list, the regeneration finishes with 1..5 active tasks for (user, category)
C1_FallbackNonEmpty ==
    (Regenerated /\ CollaboratorFailed)
        => Cardinality(ActiveOfLast) \in 1..MaxPathTasks

\* C2: a collaborator failure never reaches the caller as an error; the
\* regeneration returns the persisted (non-empty, active) fallback list
C2_FailureNotPropagated ==
    (Regenerated /\ CollaboratorFailed)
        => /\ resp.status # 500
           /\ resp.tasks # <<>>
           /\ \A k \in 1..Len(resp.tasks) : resp.tasks[k] \in ActiveOfLast

\* C3: after N >= 1 regenerations served one after another, exactly one
\* generation (the last one) has active tasks and all others are inactive
C3_OneActiveGeneration ==
    Regenerated => {paths[i].gen : i \in ActiveOfLast} = {nregen}

\* C4: a completion request for a task of the caller leaves it completed, and
\* a second request for the same task changes no table and reports success:
\* two calls leave the state of one call
C4_CompleteIdempotent ==
    [][\A u \in Users, t \in 1..Len(paths) :
          (CompletionStep(u, t) /\ paths[t].user_id = u)
              => /\ paths'[t].is_completed
                 /\ paths[t].is_completed
                       => (UNCHANGED db /\ resp'.status = 200 /\ resp'.success)]_vars

C4_Witness ==
    /\ lastReq.op = "update_task_status"
    /\ lastReq.status = "complete"
    /\ lastReq.target = "done"
    /\ Points(lastReq.user) > 0
    /\ resp.success

\* C5: a completion request for a task id that does not exist or belongs to
\* another user reports success and changes no table
C5_ForeignOrMissingNoOp ==
    [][\A u \in Users, t \in 0..(Len(paths) + 1) :
          (CompletionStep(u, t) /\ (t \notin 1..Len(paths) \/ paths[t].user_id # u))
              => (UNCHANGED db /\ resp'.status = 200 /\ resp'.success)]_vars

C5_Witness ==
    /\ lastReq.op = "update_task_status"
    /\ lastReq.status = "complete"
    /\ lastReq.target = "foreign"
    /\ ~paths[lastReq.task].is_completed
    /\ resp.success

\* C6: a transition on a day that already is last_completed_date leaves
\* current_streak unchanged
C6_SameDayStreakUnchanged ==
    [][\A u \in Users, t \in 1..Len(paths) :
          (TransitionStep(u, t) /\ LastDate(u) = IsoFormat(today))
              => Streak(u)' = Streak(u)]_vars

C6_Witness ==
    /\ lastReq.op = "update_task_status"
    /\ lastReq.status = "complete"
    /\ lastReq.target = "open"
    /\ today = 0
    /\ Cardinality({t \in 1..Len(paths) :
                      paths[t].user_id = lastReq.user /\ paths[t].is_completed}) >= 2
    /\ Streak(lastReq.user) = 1

\* C7: on a transition the streak grows by one when last_completed_date is
\* yesterday, becomes 1 when it is null or two or more days away, and
\* last_completed_date becomes today in every branch
C7_StreakRule ==
    [][\A u \in Users, t \in 1..Len(paths) :
          TransitionStep(u, t)
              => /\ LastDate(u)' = IsoFormat(today)
                 /\ LastDate(u) = IsoFormat(today - 1) => Streak(u)' = Streak(u) + 1
                 /\ (\/ LastDate(u) = NoDate
                     \/ /\ LastDate(u) # NoDate
                        /\ \/ today - FromIsoFormat(LastDate(u)) >= 2
                           \/ FromIsoFormat(LastDate(u)) - today >= 2)
                       => Streak(u)' = 1]_vars

C7_Witness ==
    /\ lastReq.op = "update_task_status"
    /\ lastReq.status = "complete"
    /\ lastReq.target = "open"
    /\ today >= 1
    /\ LastDate(lastReq.user) = IsoFormat(today)
    /\ Streak(lastReq.user) = 2

\* C8: completing a task whose description starts with "Boss Battle:" (any
\* letter case) adds exactly 100 points, for type standard and milestone
C8_BossBattleHundred ==
    [][\A u \in Users, t \in 1..Len(paths) :
          (TransitionStep(u, t) /\ StartsWithMarker(paths[t].description))
              => Points(u)' = Points(u) + BossPoints]_vars

C8_Witness ==
    /\ lastReq.op = "update_task_status"
    /\ lastReq.status = "complete"
    /\ lastReq.target = "open"
    /\ StartsWithMarker(paths[lastReq.task].description)
    /\ paths[lastReq.task].type = "standard"
    /\ Points(lastReq.user) = BossPoints

\* C9: the points of a transition follow the first-match rule: 100 when the
\* description begins with the marker, else 25 for a milestone, else 10
C9_FirstMatchRule ==
    [][\A u \in Users, t \in 1..Len(paths) :
          TransitionStep(u, t)
              => Points(u)' - Points(u) =
                    IF StartsWithMarker(paths[t].description) THEN BossPoints
                    ELSE IF paths[t].type = "milestone" THEN MilestonePoints
                    ELSE StandardPoints]_vars

\* C10: points never decrease, also when the statements of concurrent
\* completion requests of one user interleave
C10_PointsNeverDecrease ==
    [][\A u \in Users : Points(u)' >= Points(u)]_vars

\* the tasks of user u that went from incomplete to complete
CompletedOf(u) ==
    {i \in 1..Len(paths) : paths[i].user_id = u /\ paths[i].is_completed}

\* the sum of the awards of the tasks in ids
RECURSIVE AwardSum(_, _)
AwardSum(rows, ids) ==
    IF ids = {} THEN 0
    ELSE LET i == CHOOSE j \in ids : TRUE
         IN PointsToAdd(rows[i].description, rows[i].type) + AwardSum(rows, ids \ {i})

\* no completion request is in flight
AllFinished == \A p \in Procs : req[p].pc = "idle"

\* C11: completion updates are an atomic read-modify-write: once the
\* interleaved completion requests of a user have finished, the points are
\* the initial points (0) plus the awards of the tasks that went
\* incomplete->complete, each counted exactly once
C11_AtomicPoints ==
    AllFinished => \A u \in Users : Points(u) = AwardSum(paths, CompletedOf(u))

\* no regeneration is in flight
RegenFinished == \A p \in Procs : regen[p].pc = "idle"

\* the active tasks of (u, c) that a regeneration inserted
GeneratedActive(u, c) ==
    {i \in ActiveIds(paths, u, c) : ~paths[i].is_user_added}

\* the generated tasks of (u, c) that request g inserted
InsertedBy(u, c, g) ==
    {i \in 1..Len(paths) :
        /\ paths[i].user_id = u /\ paths[i].category = c
        /\ ~paths[i].is_user_added /\ paths[i].gen = g}

\* C12: at most one set of tasks is active per (user, category), also under
\* concurrency: once the interleaved regeneration requests have finished, all
\* active tasks of the pair were inserted by a single request and all tasks
\* that request inserted are still active
C12_OneActiveSetConcurrent ==
    RegenFinished =>
        \A u \in Users, c \in Categories :
            \A i \in GeneratedActive(u, c) :
                /\ \A j \in GeneratedActive(u, c) : paths[j].gen = paths[i].gen
                /\ \A j \in InsertedBy(u, c, paths[i].gen) : paths[j].is_active

\* the step serves a listing request of user u for category c
ListingStep(u, method, c) ==
    /\ nreq' = nreq + 1
    /\ lastReq'.op = "tasks"
    /\ lastReq'.status = method
    /\ lastReq'.user = u
    /\ lastReq'.category = c

\* the ids of the rows the step inserted into paths, in order
NewIds == [k \in 1..(Len(paths') - Len(paths)) |-> Len(paths) + k]

\* C13: a GET listing returns the active generation and changes no stored
\* state when one exists; when none exists it runs exactly one generation and
\* returns the newly persisted tasks
C13_ListingFrame ==
    [][\A u \in Users, c \in ListingCategories :
          ListingStep(u, "GET", c)
              => IF ActiveIds(paths, u, c) # {}
                 THEN /\ UNCHANGED db
                      /\ resp'.status = 200
                      /\ resp'.tasks = SortByOrder(paths, ActivePath(paths, u, c))
                 ELSE /\ nregen' = nregen + 1
                      /\ resp'.status = 200
                      /\ resp'.tasks # <<>>
                      /\ resp'.tasks = NewIds]_vars

\* C14: a path request for a category c for which the user has no task
\* yields 1..5 new tasks, all stored with category c, and leaves the active
\* flag of every task of the user's other categories unchanged, for every
\* category string the listing accepts
C14_NewCategoryPath ==
    [][\A u \in Users, method \in {"GET", "POST"}, c \in ListingCategories :
          (/\ ListingStep(u, method, c)
           /\ \A i \in 1..Len(paths) : ~(paths[i].user_id = u /\ paths[i].category = c))
              => /\ Len(NewIds) \in 1..MaxPathTasks
                 /\ \A k \in 1..Len(NewIds) : paths'[NewIds[k]].category = c
                 /\ \A i \in 1..Len(paths) :
                       paths[i].user_id = u => paths'[i].is_active = paths[i].is_active]_vars

\* the request served last fetched a quiz
QuizFetched == lastReq.op = "quiz"

\* C15: a quiz persisted with N questions is fetched with exactly N
\* questions, in the order they were created, each with its options element
\* by element, its correct_option and its explanation
C15_QuizRoundTrip ==
    (QuizFetched /\ resp.status = 200)
        => LET given == quizzes[paths[lastReq.task].task_content_id].given
               got == quiz_resp.questions
           IN /\ Len(got) = Len(given)
              /\ \A k \in 1..Len(got) :
                    /\ got[k].question_text = given[k].question_text
                    /\ Len(got[k].options) = Len(given[k].options)
                    /\ \A o \in 1..Len(got[k].options) :
                          got[k].options[o] = given[k].options[o]
                    /\ got[k].correct_option = given[k].correct_option
                    /\ got[k].explanation = given[k].explanation
                    /\ k > 1 => got[k - 1].id < got[k].id

C15_Witness ==
    /\ QuizFetched
    /\ resp.status = 200
    /\ Len(quizzes) >= 2
    /\ paths[lastReq.task].task_content_id = 1
    /\ Len(quiz_resp.questions) = 2

\* C16: quiz fetch returns quiz content only for a quiz-format task of the
\* caller; for a task of another user, a missing task or a non-quiz task it
\* answers not-found and discloses neither title nor question
C16_QuizFetchAuthorized ==
    [][\A u \in Users, t \in 0..(Len(paths) + 1) :
          (/\ nreq' = nreq + 1
           /\ lastReq'.op = "quiz" /\ lastReq'.user = u /\ lastReq'.task = t
           /\ ~(/\ t \in 1..Len(paths)
                /\ paths[t].user_id = u
                /\ paths[t].task_format = "quiz"))
              => /\ resp'.status = 404
                 /\ quiz_resp'.title = NULL
                 /\ quiz_resp'.questions = <<>>]_vars

C16_Witness ==
    /\ QuizFetched
    /\ lastReq.target = "foreign"
    /\ paths[lastReq.task].task_format = "quiz"
    /\ resp.status = 404
    /\ quiz_resp = NoQuizResp

\* the step serves a dashboard read of user u
DashboardStep(u) ==
    /\ nreq' = nreq + 1
    /\ lastReq'.op = "dashboard"
    /\ lastReq'.user = u

\* C17: an achievement that is in the earned set at one dashboard read is in
\* the earned set at every later dashboard read, the streak ones included
C17_NeverRelocked ==
    [][\A u \in Users : DashboardStep(u) => earned[u] \subseteq earned'[u]]_vars

\* C18: once ten tasks of a user have gone incomplete->complete, every later
\* dashboard read shows "Completed 10 tasks" (after an 11th completion and
\* after a regeneration too), whatever the categories of the tasks are
C18_TenTasksShown ==
    [][\A u \in Users :
          (DashboardStep(u) /\ Cardinality(CompletedOf(u)) >= TaskMasterTasks)
              => "task_master_10" \in earned'[u]]_vars

\* the section stats of user u whose stored value the step changes
SectionsChanged(u) ==
    {k \in SectionStats : StatGet(user_stats'[u], k) # StatGet(user_stats[u], k)}

\* C19: each stat update appends exactly one stat_history row per stat (two
\* separate updates of sat_ebrw and sat_math append two), and the computed
\* SAT total is the integer sum of the two latest stored section values
C19_StatHistoryAndTotal ==
    [][\A u \in Users :
          /\ (nreq' = nreq + 1 /\ lastReq'.user = u
               /\ lastReq'.op = "update_stats" /\ resp'.status = 200)
                 => Len(stat_history') = Len(stat_history) + 1
          /\ (nreq' = nreq + 1 /\ lastReq'.user = u /\ lastReq'.op = "edit_stats")
                 => Len(stat_history') =
                        Len(stat_history) + Cardinality(SectionsChanged(u))
          /\ (nreq' = nreq + 1 /\ lastReq'.user = u /\ lastReq'.op = "stats"
               /\ user_stats[u].sat_ebrw # EmptyStr
               /\ user_stats[u].sat_math # EmptyStr)
                 => sat_total' =
                        [present |-> TRUE,
                         n |-> user_stats[u].sat_ebrw.n + user_stats[u].sat_math.n]]_vars

\* the active tasks of (u, c) whose created_at is the greatest among them
LatestActive(u, c) ==
    {i \in ActiveIds(paths, u, c) :
        ~\E j \in ActiveIds(paths, u, c) : paths[j].created_at > paths[i].created_at}

\* ids lists exactly the tasks of S, each once, by ascending task_order
ListsInOrder(ids, S) ==
    /\ Len(ids) = Cardinality(S)
    /\ {ids[k] : k \in 1..Len(ids)} = S
    /\ \A k \in 1..(Len(ids) - 1) :
          paths[ids[k]].task_order <= paths[ids[k + 1]].task_order

RowsOfGeneration(g) ==
    {i \in 1..Len(paths) : ~paths[i].is_user_added /\ paths[i].gen = g}

\* C21: all tasks inserted by one regeneration carry the same created_at and
\* the distinct task_order values 1..k, so that the active generation read
\* after a regeneration holds all k tasks of it
C21_SameCreatedAt ==
    /\ \A g \in 1..nregen :
          /\ \A i, j \in RowsOfGeneration(g) : paths[i].created_at = paths[j].created_at
          /\ {paths[i].task_order : i \in RowsOfGeneration(g)}
                = 1..Cardinality(RowsOfGeneration(g))
    /\ Regenerated
          => ActivePath(paths, lastReq.user, PipelineOf(lastReq.category))
                = RowsOfGeneration(nregen)

\* C29: a task the user adds joins the current path: with an active
\* generation G and an added task, the next listing returns every task of G
\* plus the added task, the added task last with task_order = max active
\* task_order + 1, and the listing triggers no regeneration
C29_AddedTaskJoinsPath ==
    [][\A u \in Users, c \in Categories :
          /\ (nreq' = nreq + 1 /\ lastReq'.op = "add_task" /\ lastReq'.user = u
               /\ lastReq'.category = c /\ Len(paths') = Len(paths) + 1)
                 => \A i \in ActiveIds(paths, u, c) :
                       paths'[Len(paths')].task_order > paths[i].task_order
          /\ (/\ ListingStep(u, "GET", c)
               /\ GeneratedActive(u, c) # {}
               /\ \E t \in ActiveIds(paths, u, c) : paths[t].is_user_added)
                 => /\ nregen' = nregen
                    /\ UNCHANGED db
                    /\ ListsInOrder(resp'.tasks, ActiveIds(paths, u, c))]_vars
\* the step begins (and, served whole, finishes) a regeneration of (u, c)
RegenerationStep(u, c) ==
    /\ nregen' = nregen + 1
    /\ lastReq'.user = u
    /\ PipelineOf(lastReq'.category) = c

\* C22: a regeneration of (user, category) deletes no task row and changes
\* the rows that existed before only in is_active, which becomes false on
\* the tasks of exactly that user and category; is_completed, description,
\* created_at and the is_active of other users' or categories' tasks stay
C22_DeactivationFrame ==
    [][\A u \in Users, c \in Categories :
          RegenerationStep(u, c)
             => /\ Len(paths') >= Len(paths)
                /\ \A i \in 1..Len(paths) :
                      paths'[i] =
                         [paths[i] EXCEPT
                             !.is_active = IF paths[i].user_id = u /\ paths[i].category = c
                                           THEN FALSE ELSE @]]_vars

\* a regeneration has deactivated a completed task, while a
\* task of the other user in that category and a task of the same user in
\* the other category are still active
C22_Witness ==
    /\ Regenerated
    /\ \E i, j, k \in 1..Len(paths) :
          /\ paths[i].user_id = lastReq.user /\ paths[i].category = lastReq.category
          /\ paths[i].is_completed /\ ~paths[i].is_active
          /\ paths[j].user_id # lastReq.user /\ paths[j].category = lastReq.category
          /\ paths[j].is_active
          /\ paths[k].user_id = lastReq.user /\ paths[k].category # lastReq.category
          /\ paths[k].is_active /\ paths[k].gen < nregen

\* the handlers the gamification_stats row of an existing user must survive
NonCompletionOps ==
    {"path_builder", "add_task", "update_task_deadline", "update_subtask",
     "add_subtask", "submit_quiz_results", "update_stats", "dashboard"}

\* C24: a gamification_stats row changes only in a step that takes one of
\* its user's tasks from incomplete to complete, and that step writes points,
\* current_streak and last_completed_date together; regeneration, task add,
\* due-date update, subtask toggle, quiz submission, stat update and
\* dashboard read leave every existing row as it is
C24_GamificationFrame ==
    [][/\ \A u \in Users :
            gamification_stats'[u] # gamification_stats[u]
               => \E t \in 1..Len(paths) :
                     /\ TransitionStep(u, t)
                     /\ paths'[t].is_completed
                     /\ gamification_stats'[u] =
                           [points |-> Points(u)
                                         + PointsToAdd(paths[t].description, paths[t].type),
                            current_streak |-> NewStreak(Streak(u), LastDate(u), today),
                            last_completed_date |-> IsoFormat(today)]
       /\ (nreq' = nreq + 1 /\ lastReq'.op \in NonCompletionOps)
             => gamification_stats' = gamification_stats]_vars

\* a subtask was toggled after a completion had given the user points
C24_Witness ==
    /\ lastReq.op = "update_subtask"
    /\ lastReq.target = "own"
    /\ Points(lastReq.user) > 0
    /\ \E i \in 1..Len(paths) : paths[i].gen > 0 /\ ~paths[i].is_active

\* the step serves a due-date update, a subtask toggle or a subtask creation
\* of user a whose target is absent or belongs to another user
ForeignTargetStep(a) ==
    /\ nreq' = nreq + 1
    /\ lastReq'.user = a
    /\ lastReq'.op \in {"update_task_deadline", "update_subtask", "add_subtask"}
    /\ lastReq'.target \in {"missing", "foreign"}

\* C27: a due-date update, a subtask toggle or a subtask creation of user A
\* that targets an absent task or subtask, or one of another user B, changes
\* no task row and no subtask row and creates no subtask
C27_ForeignTargetNoOp ==
    [][\A a \in Users :
          ForeignTargetStep(a) => paths' = paths /\ subtasks' = subtasks]_vars

\* every row of the table is still there, with the fields it had
KeepsRows(old, new) ==
    /\ Len(new) >= Len(old)
    /\ \A i \in 1..Len(old) : new[i] = old[i]

\* the entries of a posted list that carry both a question_id and an is_correct
RECURSIVE WellFormedEntries(_)
WellFormedEntries(entries) ==
    IF entries = <<>> THEN <<>>
    ELSE IF Head(entries).has_question_id /\ Head(entries).has_is_correct
         THEN <<Head(entries)>> \o WellFormedEntries(Tail(entries))
         ELSE WellFormedEntries(Tail(entries))

\* the step serves a submission of user u whose "results" is a list of entries
SubmissionStep(u) ==
    /\ nreq' = nreq + 1
    /\ lastReq'.op = "submit_quiz_results"
    /\ lastReq'.user = u
    /\ posted_results'.islist
    /\ posted_results'.entries # <<>>

QuizTasks == {t \in 1..Len(paths) : paths[t].task_format = "quiz"}

QuestionsOf(quiz_id) == {k \in 1..Len(quiz_questions) : quiz_questions[k].quiz_id = quiz_id}

\* every quiz task refers to a quiz of its own that holds all its questions
QuizzesOwned ==
    /\ \A t \in QuizTasks :
          /\ paths[t].task_content_id \in 1..Len(quizzes)
          /\ quizzes[paths[t].task_content_id].task_id = t
          /\ Cardinality(QuestionsOf(paths[t].task_content_id))
                = Len(quizzes[paths[t].task_content_id].given)
    /\ \A t1, t2 \in QuizTasks :
          paths[t1].task_content_id = paths[t2].task_content_id => t1 = t2

\* C23: in every state another request can read, a task of format quiz has a
\* content id that refers to one quiz whose task_id is that task, no two
\* tasks share a quiz, and the quiz holds all its questions; no step changes
\* or removes a quiz_questions row
C23_QuizOwned ==
    [][QuizzesOwned' /\ KeepsRows(quiz_questions, quiz_questions')]_vars

\* request p ends in this step after its deactivation and before it has
\* inserted a task: it is stopped, or its collaborator call or first insert
\* raises
StopsBeforeInsert(p) ==
    /\ regen[p].pc \in {"collaborate", "insert"}
    /\ RowsOfGeneration(regen[p].gen) = {}
    /\ regen'[p].pc = "idle"

\* C25: a regeneration that stops after the deactivation and before the
\* first insert leaves its (user, category) with no active task; the
\* generation that was active before is not made active again
C25_StopLeavesNoActiveTask ==
    [][\A p \in Procs :
          StopsBeforeInsert(p)
             => ActiveIds(paths', regen[p].user, regen[p].category) = {}]_vars

\* the second regeneration of a pair stopped before its first insert: the
\* tasks of the first generation are there and none is active
C25_Witness ==
    /\ nregen = 2
    /\ regen[1].pc = "idle"
    /\ lastReq.op = "path_builder"
    /\ RowsOfGeneration(2) = {}
    /\ \E i \in RowsOfGeneration(1) :
          paths[i].user_id = lastReq.user /\ paths[i].category = lastReq.category
    /\ ActiveIds(paths, lastReq.user, lastReq.category) = {}

\* the tasks of (u, c)
TasksOf(u, c) ==
    {i \in 1..Len(paths) : paths[i].user_id = u /\ paths[i].category = c}

\* the step appends a path_generated row
LogsPathGenerated ==
    /\ Len(activity_log') > Len(activity_log)
    /\ activity_log'[Len(activity_log')].activity_type = "path_generated"

\* C26: within one regeneration the path history has been read when the old
\* generation is deactivated and holds none of the new tasks, a task is
\* inserted only when no task of an older generation of the pair is active,
\* the path_generated row is appended once, as the last statement, when all
\* tasks of the list are stored, and a regeneration that ends without a
\* stored task appends none
C26_StepOrder ==
    [][\A p \in Procs :
          LET r == regen[p] IN
          /\ (r.pc = "deactivate" /\ regen'[p].pc # "idle")
                => /\ r.history.completed \cup r.history.incomplete
                         = TasksOf(r.user, r.category)
                   /\ \A i \in TasksOf(r.user, r.category) : paths[i].gen < r.gen
          /\ (r.pc = "insert" /\ Len(paths') > Len(paths))
                => /\ paths'[Len(paths')].gen = r.gen
                   /\ \A i \in ActiveIds(paths, r.user, r.category) :
                         paths[i].gen = r.gen
                   /\ Len(paths) + 1 \notin r.history.completed \cup r.history.incomplete
          /\ (r.pc # "idle" /\ LogsPathGenerated)
                => /\ Len(activity_log') = Len(activity_log) + 1
                   /\ regen'[p].pc = "idle"
                   /\ paths' = paths /\ quizzes' = quizzes
                   /\ quiz_questions' = quiz_questions
                   /\ Len(r.tasks) >= 1
                   /\ Cardinality(RowsOfGeneration(r.gen)) = Len(r.tasks)
                   /\ \A t \in RowsOfGeneration(r.gen) :
                         paths[t].task_format = "quiz"
                            => Cardinality(QuestionsOf(paths[t].task_content_id))
                                  = Len(quizzes[paths[t].task_content_id].given)
          /\ (r.pc # "idle" /\ regen'[p].pc = "idle" /\ RowsOfGeneration(r.gen) = {})
                => activity_log' = activity_log]_vars

\* the second regeneration of a pair, begun with a completed task in its
\* history, has stored its tasks and logged path_generated
C26_Witness ==
    /\ nregen = 2
    /\ regen[1].pc = "idle"
    /\ lastReq.op = "path_builder"
    /\ resp.success
    /\ activity_log # <<>>
    /\ activity_log[Len(activity_log)].activity_type = "path_generated"
    /\ Cardinality(RowsOfGeneration(2)) = 2
    /\ \E i \in RowsOfGeneration(1) :
          paths[i].is_completed /\ paths[i].category = lastReq.category

\* the points the user has been credited
Credited(u) == IF u \in DOMAIN gamification_stats THEN Points(u) ELSE 0

\* C30: whenever no completion request is in flight (each has returned or
\* was aborted), the points of every user are the sum of the awards of that
\* user's completed tasks: no task is completed without its points
C30_PointsAccountForCompleted ==
    AllFinished => \A u \in Users : Credited(u) = AwardSum(paths, CompletedOf(u))

====
